---- MODULE Spec2Model ----
(***************************************************************************)
(* World model and command-resolution engine of rust-in-peace              *)
(* (src/rust_in_peace/src/game_lib.rs).                                    *)
(*                                                                         *)
(* The World is one ordered sequence of objects, referenced by index       *)
(* (0-based, as in the source).  Option::None is written None (-1).        *)
(* The handlers read the fields location / destination / item /            *)
(* consumable / health of an object; the enum variant is kept in `kind`.   *)
(* Text is modelled as text: every handler builds the string it returns.   *)
(*                                                                         *)
(* u64 arithmetic: a value v < 2^63 is written v, a value 2^64 - k that    *)
(* results from a wrapped subtraction is written -k (two's complement).    *)
(***************************************************************************)
EXTENDS Integers, Sequences, FiniteSets, TLC

VARIABLES
    objects,     \* World.objects: [0..N-1 -> object record]
    pc,          \* "get_input": the main loop waits for a line;
                 \* "update_screen": update_state returned the text to display;
                 \* "loop": at the head of do_attack's loop;
                 \* "read_line": do_attack's loop waits for a line;
                 \* "panicked": the process aborted on an arithmetic overflow;
                 \* "done": the main loop has stopped
    command,     \* the input handled by the last step
    output,      \* the text shown to the user by the last step
    obj_index,   \* do_attack: index of the enemy fought (None outside combat)
    obj_health,  \* do_attack: local copy of the enemy's health
    player       \* do_attack: health of the local copy of the Player

vars == <<objects, pc, command, output, obj_index, obj_health, player>>

----------------------------------------------------------------------------
(* Bounds of the model *)

\* After a wrapped subtraction the combat loop goes on; it is followed while
\* the wrapped health is within MaxWrapped of 2^64.
MaxWrapped == 30

\* The enemy's random attack is drawn from 0..MaxRngSample and attack - 1.
MaxRngSample == 1

----------------------------------------------------------------------------
(* Indices of the well-known objects *)

LOC_FOREST == 0
LOC_DUNGEONS == 1
LOC_CAVE == 2
LOC_TAVERN == 3
LOC_VILLAGE == 4
LOC_STRONGHOLD == 5
LOC_PLAYER == 6
LOC_BEAR == 7
LOC_TROLL == 8
LOC_BANDITS == 9

None == -1

\* enum Distance, in its derived order
Distances == <<"Player", "Held", "Location", "Here", "OverThere", "NotHere", "Unknown">>

DistanceOrd(d) == CHOOSE i \in 1..Len(Distances) : Distances[i] = d

\* Distance's derived Ord: a <= b
DistanceLe(a, b) == DistanceOrd(a) <= DistanceOrd(b)

----------------------------------------------------------------------------
(* Object constructors *)

Location(name, description) ==
    [kind |-> "Location", name |-> name, description |-> description,
     location |-> None, destination |-> None, item |-> FALSE,
     consumable |-> FALSE, health |-> None, attack |-> None]

NewPlayer(name) ==
    [kind |-> "Player", name |-> name, description |-> "",
     location |-> LOC_FOREST, destination |-> None, item |-> FALSE,
     consumable |-> FALSE, health |-> 100, attack |-> None]

NewEnemy(name, description, attack, location) ==
    [kind |-> "Enemy", name |-> name, description |-> description,
     location |-> location, destination |-> None, item |-> FALSE,
     consumable |-> FALSE, health |-> 100, attack |-> attack]

NewWeapon(name, description, location, attack_points) ==
    [kind |-> "Weapon", name |-> name, description |-> description,
     location |-> location, destination |-> None, item |-> TRUE,
     consumable |-> FALSE, health |-> None, attack |-> attack_points]

NewConsumable(name, description, health_points, location) ==
    [kind |-> "Consumable", name |-> name, description |-> description,
     location |-> location, destination |-> None, item |-> TRUE,
     consumable |-> TRUE, health |-> health_points, attack |-> None]

\* A directional link between two locations (destination None: a dead end)
Passage(name, description, location, destination) ==
    [kind |-> "Passage", name |-> name, description |-> description,
     location |-> location, destination |-> destination, item |-> FALSE,
     consumable |-> FALSE, health |-> None, attack |-> None]

\* Vec<Object> from a literal list
Vec(list) == [i \in 0..(Len(list) - 1) |-> list[i + 1]]

Indices(w) == DOMAIN w

\* World::new(): the built-in layout
DefaultObjects ==
    << Location("Forest", "Look out for tree people."),
       Location("Dungeons", "Be aware of trolls."),
       Location("Cave", "Watch out for bats and look out for light."),
       Location("Tavern", "The tavern is empty. But the fire is still burning in the fireplace."),
       Location("Village", "An abandoned village. It has been ransacked by a group of bandits."),
       Location("StrongHold", "A stronghold. It is heavily guarded by a group of bandits."),
       NewPlayer("Master of None"),
       NewEnemy("Bear", "A bear", 20, LOC_CAVE),
       NewEnemy("Troll", "A troll", 20, LOC_DUNGEONS),
       NewEnemy("Bandits", "A group of bandits", 30, LOC_STRONGHOLD),
       NewWeapon("Sword", "A rusty sword", LOC_DUNGEONS, 20),
       NewWeapon("Bow", "A bow", LOC_TAVERN, 10),
       NewWeapon("Bones", "Bones of an animal", LOC_CAVE, 5),
       NewWeapon("Spear", "A spear", LOC_VILLAGE, 25),
       NewConsumable("Apple", "An apple", 10, LOC_TAVERN),
       NewConsumable("Potion", "A vial of healing potion (Get it to increase health)  (Hint: Type <get potion> to consume it)", 20, LOC_VILLAGE) >>

WorldNew == Vec(DefaultObjects)

\* Passages of the map that World::new keeps as a to-be-restored feature
MapPassages ==
    << Passage("North", "A path to the north leading out of the forest leading to an old Tavern", LOC_FOREST, LOC_TAVERN),
       Passage("East", "A path to the east leading to the Dungeons", LOC_TAVERN, LOC_DUNGEONS),
       Passage("East", "A path to the east leading to the tavern", LOC_VILLAGE, LOC_TAVERN),
       Passage("West", "A path to the west leading to the Tavern", LOC_DUNGEONS, LOC_TAVERN),
       Passage("North", "There is no other path in that direction.", LOC_TAVERN, None) >>

\* Index of the Potion, Apple and Sword of the built-in layout
IDX_SWORD == 10
IDX_APPLE == 14
IDX_POTION == 15

\* A world loaded by read_from_file: the built-in objects with passages of
\* the map, the player in the Tavern, the given player and Troll health and
\* Potion location, and, when twoSwords, a second weapon named Sword lying
\* in the Tavern.
FileWorld(playerHealth, trollHealth, potionLoc, twoSwords) ==
    LET base == Vec(DefaultObjects \o MapPassages
                    \o (IF twoSwords
                        THEN <<NewWeapon("Sword", "A shiny sword", LOC_TAVERN, 20)>>
                        ELSE <<>>))
    IN [base EXCEPT ![LOC_PLAYER].location = LOC_TAVERN,
                    ![LOC_PLAYER].health = playerHealth,
                    ![LOC_TROLL].health = trollHealth,
                    ![IDX_POTION].location = potionLoc]

\* A loaded world in which the Bear, the Troll and the Bandits are all dead
DefeatedWorld ==
    [FileWorld(100, 0, LOC_VILLAGE, FALSE) EXCEPT ![LOC_BEAR].health = 0,
                                                  ![LOC_BANDITS].health = 0]

\* The worlds a session starts from
InitWorlds ==
    { WorldNew,
      FileWorld(100, 100, LOC_VILLAGE, FALSE),
      FileWorld(80, 100, LOC_TAVERN, FALSE),
      FileWorld(100, 0, LOC_VILLAGE, FALSE),
      FileWorld(19, 100, LOC_VILLAGE, FALSE),
      FileWorld(100, 100, LOC_VILLAGE, TRUE),
      FileWorld(0, 100, LOC_VILLAGE, FALSE),
      DefeatedWorld }

----------------------------------------------------------------------------
(* Text helpers *)

\* str::to_lowercase on the names and nouns of the model
ToLowercase(s) ==
    CASE s = "Forest" -> "forest"
      [] s = "Dungeons" -> "dungeons"
      [] s = "Cave" -> "cave"
      [] s = "Tavern" -> "tavern"
      [] s = "Village" -> "village"
      [] s = "StrongHold" -> "stronghold"
      [] s = "Master of None" -> "master of none"
      [] s = "Bear" -> "bear"
      [] s = "Troll" -> "troll"
      [] s = "Bandits" -> "bandits"
      [] s = "Sword" -> "sword"
      [] s = "SWORD" -> "sword"
      [] s = "Bow" -> "bow"
      [] s = "Bones" -> "bones"
      [] s = "Spear" -> "spear"
      [] s = "Apple" -> "apple"
      [] s = "Potion" -> "potion"
      [] s = "North" -> "north"
      [] s = "South" -> "south"
      [] s = "East" -> "east"
      [] s = "West" -> "west"
      [] s = "LOOK" -> "look"
      [] s = "Get" -> "get"
      [] s = "Dance" -> "dance"
      [] s = "Wildly" -> "wildly"
      [] OTHER -> s

\* Display of a u64 (a wrapped value 2^64 - k is written "2^64-k")
U64ToString(v) == IF v >= 0 THEN ToString(v) ELSE "2^64" \o ToString(v)

----------------------------------------------------------------------------
(* Distance classifier *)

is_containing(w, container, object) ==
    object # None /\ w[object].location = container

\* passage_index that compares the location only and forgets the destination
passage_index_nodest(w, from, to) ==
    IF from = None \/ to = None
    THEN None
    ELSE LET found == { pos \in Indices(w) :
                          /\ w[pos].location # None
                          /\ w[pos].location = from }
         IN IF found = {} THEN None
            ELSE CHOOSE pos \in found : \A q \in found : pos <= q

passage_index(w, from, to) ==
    IF from = None \/ to = None
    THEN None
    ELSE LET found == { pos \in Indices(w) :
                          /\ w[pos].location # None
                          /\ w[pos].destination # None
                          /\ w[pos].location = from
                          /\ w[pos].destination = to }
         IN IF found = {} THEN None
            ELSE CHOOSE pos \in found : \A q \in found : pos <= q

\* get_distance with the arguments of passage_index exchanged
get_distance_swapped(w, from, to) ==
    LET from_loc == IF from = None THEN None ELSE w[from].location
    IN IF to = None THEN "Unknown"
       ELSE IF to = from THEN "Player"
       ELSE IF is_containing(w, from, to) THEN "Held"
       ELSE IF is_containing(w, to, from) THEN "Location"
       ELSE IF from_loc # None /\ is_containing(w, from_loc, to) THEN "Here"
       ELSE IF passage_index(w, to, from_loc) # None THEN "OverThere"
       ELSE "NotHere"

get_distance(w, from, to) ==
    LET from_loc == IF from = None THEN None ELSE w[from].location
    IN IF to = None THEN "Unknown"
       ELSE IF to = from THEN "Player"
       ELSE IF is_containing(w, from, to) THEN "Held"
       ELSE IF is_containing(w, to, from) THEN "Location"
       ELSE IF from_loc # None /\ is_containing(w, from_loc, to) THEN "Here"
       ELSE IF passage_index(w, from_loc, to) # None THEN "OverThere"
       ELSE "NotHere"

object_with_label(object, noun) ==
    ToLowercase(object.name) = ToLowercase(noun)

\* AmbiguousOption<usize>
AONone == [tag |-> "None", index |-> None]
AOSome(i) == [tag |-> "Some", index |-> i]
AOAmbiguous == [tag |-> "Ambiguous", index |-> None]

RECURSIVE object_index_from(_, _, _, _, _, _)
object_index_from(w, noun, from, max_distance, position, result) ==
    IF position \notin Indices(w)
    THEN result
    ELSE object_index_from(w, noun, from, max_distance, position + 1,
            IF /\ object_with_label(w[position], noun)
               /\ DistanceLe(get_distance(w, from, position), max_distance)
            THEN IF result = AONone THEN AOSome(position) ELSE AOAmbiguous
            ELSE result)

\* object_index that keeps the first match where the code reports Ambiguous
object_index_first(w, noun, from, max_distance) ==
    LET r == object_index_from(w, noun, from, max_distance, 0, AONone)
    IN IF r # AOAmbiguous THEN r
       ELSE AOSome(CHOOSE i \in Indices(w) :
                /\ object_with_label(w[i], noun)
                /\ DistanceLe(get_distance(w, from, i), max_distance)
                /\ \A j \in Indices(w) :
                      ( /\ object_with_label(w[j], noun)
                        /\ DistanceLe(get_distance(w, from, j), max_distance) ) => i <= j)

object_index(w, noun, from, max_distance) ==
    object_index_from(w, noun, from, max_distance, 0, AONone)

\* object_visible that asks for disambiguation whenever either threshold is
\* ambiguous, also when exactly one match is within OverThere
object_visible_strict(w, noun) ==
    LET obj_over_there == object_index(w, noun, LOC_PLAYER, "OverThere")
        obj_not_here == object_index(w, noun, LOC_PLAYER, "NotHere")
    IN CASE obj_over_there.tag = "None" /\ obj_not_here.tag = "None" ->
              [output |-> "Invalid command!!", obj |-> None]
         [] obj_over_there.tag = "None" /\ obj_not_here.tag = "Some" ->
              [output |-> "You don't see any '" \o noun \o "' here.\n", obj |-> None]
         [] \/ obj_over_there.tag = "Ambiguous"
            \/ obj_not_here.tag = "Ambiguous" ->
              [output |-> "Please be more specific about which " \o noun
                          \o " you mean. Try typing out the location.\n",
               obj |-> None]
         [] OTHER ->
              [output |-> "", obj |-> obj_over_there.index]

\* object_visible that goes on with an object matched only at NotHere
object_visible_far(w, noun) ==
    LET obj_over_there == object_index(w, noun, LOC_PLAYER, "OverThere")
        obj_not_here == object_index(w, noun, LOC_PLAYER, "NotHere")
    IN CASE obj_over_there.tag = "None" /\ obj_not_here.tag = "None" ->
              [output |-> "Invalid command!!", obj |-> None]
         [] obj_over_there.tag = "None" /\ obj_not_here.tag = "Some" ->
              [output |-> "", obj |-> obj_not_here.index]
         [] \/ obj_over_there.tag = "Ambiguous"
            \/ obj_over_there.tag = "None" /\ obj_not_here.tag = "Ambiguous" ->
              [output |-> "Please be more specific about which " \o noun
                          \o " you mean. Try typing out the location.\n",
               obj |-> None]
         [] obj_over_there.tag = "Some" ->
              [output |-> "", obj |-> obj_over_there.index]

object_visible(w, noun) ==
    LET obj_over_there == object_index(w, noun, LOC_PLAYER, "OverThere")
        obj_not_here == object_index(w, noun, LOC_PLAYER, "NotHere")
    IN CASE obj_over_there.tag = "None" /\ obj_not_here.tag = "None" ->
              [output |-> "Invalid command!!", obj |-> None]
         [] obj_over_there.tag = "None" /\ obj_not_here.tag = "Some" ->
              [output |-> "You don't see any '" \o noun \o "' here.\n", obj |-> None]
         [] \/ obj_over_there.tag = "Ambiguous"
            \/ obj_over_there.tag = "None" /\ obj_not_here.tag = "Ambiguous" ->
              [output |-> "Please be more specific about which " \o noun
                          \o " you mean. Try typing out the location.\n",
               obj |-> None]
         [] obj_over_there.tag = "Some" ->
              [output |-> "", obj |-> obj_over_there.index]

----------------------------------------------------------------------------
(* Listings *)

RECURSIVE list_objects_from(_, _, _, _)
list_objects_from(w, location, pos, acc) ==
    IF pos \notin Indices(w)
    THEN acc
    ELSE list_objects_from(w, location, pos + 1,
            IF /\ w[pos].kind \in {"Weapon", "Consumable", "Enemy"}
               /\ is_containing(w, location, pos)
            THEN [result |-> acc.result \o w[pos].description \o "\n",
                  count |-> acc.count + 1]
            ELSE acc)

\* list_objects that also lists what the player holds
list_objects_held(w, location) ==
    LET here == list_objects_from(w, location, 0, [result |-> "\nYou see:\n", count |-> 0])
    IN list_objects_from(w, LOC_PLAYER, 0, here)

list_objects(w, location) ==
    list_objects_from(w, location, 0, [result |-> "\nYou see:\n", count |-> 0])

\* do_inventory that lists what lies where the player stands
do_inventory_here(w) ==
    LET listed == list_objects(w, w[LOC_PLAYER].location)
    IN IF listed.count = 0
       THEN "You currently do not have anything in your inventory.\n"
       ELSE listed.result

do_inventory(w) ==
    LET listed == list_objects(w, LOC_PLAYER)
    IN IF listed.count = 0
       THEN "You currently do not have anything in your inventory.\n"
       ELSE listed.result

display_help ==
    "Available commands are\n\n        look\n\n        attack <enemy name>\n\n        go <location>\n\n        get <item name>\n\n        drop <item name>\n\n        inventory \n\n        map \n\n        quit\n\n        help\n"

RECURSIVE display_locations_from(_, _, _)
display_locations_from(w, index, result) ==
    IF index \notin Indices(w)
    THEN result
    ELSE display_locations_from(w, index + 1,
            IF \E o \in Indices(w) : w[o].destination = index
            THEN result \o ToString(index) \o ": " \o w[index].name \o "\n"
            ELSE result)

display_locations(w) == display_locations_from(w, 0, "Available locations:\n")

\* do_look that describes the location whatever the noun
do_look_any(w, noun) ==
    " You are in the " \o w[w[LOC_PLAYER].location].name \o "\n "
    \o w[w[LOC_PLAYER].location].description \o ".\n"
    \o list_objects(w, w[LOC_PLAYER].location).result

do_look(w, noun) ==
    IF noun = ""
    THEN " You are in the " \o w[w[LOC_PLAYER].location].name \o "\n "
         \o w[w[LOC_PLAYER].location].description \o ".\n"
         \o list_objects(w, w[LOC_PLAYER].location).result
    ELSE "Invalid command!!\n"

----------------------------------------------------------------------------
(* Handlers that move things; each yields the new World and the text *)

\* do_go that does not follow the destination link of a passage
do_go_nolink(w, noun) ==
    LET vis == object_visible(w, noun)
        obj_opt == vis.obj
        distance == get_distance(w, LOC_PLAYER, obj_opt)
    IN CASE distance = "OverThere" ->
              LET moved == [w EXCEPT ![LOC_PLAYER].location = obj_opt]
              IN [objects |-> moved, output |-> "OK.\n" \o do_look(moved, "")]
         [] distance = "NotHere" ->
              [objects |-> w, output |-> "You don't see any '" \o noun \o "' here.\n"]
         [] distance = "Unknown" ->
              [objects |-> w, output |-> vis.output]
         [] OTHER ->
              [objects |-> w,
               output |-> IF obj_opt = None THEN "Invalid command!!\n"
                          ELSE w[obj_opt].description]

\* do_go that stands the player on the passage itself instead of its destination
do_go_passage(w, noun) ==
    LET vis == object_visible(w, noun)
        obj_opt == vis.obj
        distance == get_distance(w, LOC_PLAYER, obj_opt)
    IN CASE distance = "OverThere" ->
              LET moved == [w EXCEPT ![LOC_PLAYER].location = obj_opt]
              IN [objects |-> moved, output |-> "OK.\n" \o do_look(moved, "")]
         [] distance = "NotHere" ->
              [objects |-> w, output |-> "You don't see any '" \o noun \o "' here.\n"]
         [] distance = "Unknown" ->
              [objects |-> w, output |-> vis.output]
         [] OTHER ->
              LET obj_dist == IF obj_opt = None THEN None ELSE w[obj_opt].destination
              IN IF obj_dist # None
                 THEN LET moved == [w EXCEPT ![LOC_PLAYER].location = obj_opt]
                      IN [objects |-> moved, output |-> "OK.\n" \o do_look(moved, "")]
                 ELSE [objects |-> w,
                       output |-> IF obj_opt = None THEN "Invalid command!!\n"
                                  ELSE w[obj_opt].description]

do_go(w, noun) ==
    LET vis == object_visible(w, noun)
        obj_opt == vis.obj
        distance == get_distance(w, LOC_PLAYER, obj_opt)
    IN CASE distance = "OverThere" ->
              LET moved == [w EXCEPT ![LOC_PLAYER].location = obj_opt]
              IN [objects |-> moved, output |-> "OK.\n" \o do_look(moved, "")]
         [] distance = "NotHere" ->
              [objects |-> w, output |-> "You don't see any '" \o noun \o "' here.\n"]
         [] distance = "Unknown" ->
              [objects |-> w, output |-> vis.output]
         [] OTHER ->
              LET obj_dist == IF obj_opt = None THEN None ELSE w[obj_opt].destination
              IN IF obj_dist # None
                 THEN LET moved == [w EXCEPT ![LOC_PLAYER].location = obj_dist]
                      IN [objects |-> moved, output |-> "OK.\n" \o do_look(moved, "")]
                 ELSE [objects |-> w,
                       output |-> IF obj_opt = None THEN "Invalid command!!\n"
                                  ELSE w[obj_opt].description]

describe_move(w, obj_opt, to) ==
    LET obj_loc == IF obj_opt = None THEN None ELSE w[obj_opt].location
        player_loc == w[LOC_PLAYER].location
    IN IF obj_opt # None /\ to # None /\ player_loc # None /\ to = player_loc
       THEN "You have dropped " \o w[obj_opt].name \o ".\n"
       ELSE IF obj_opt # None /\ to # None /\ to # LOC_PLAYER
       THEN "You put " \o w[obj_opt].name \o " in " \o w[to].name \o ".\n"
       ELSE IF obj_opt # None /\ obj_loc # None /\ player_loc # None /\ obj_loc = player_loc
       THEN "You pick up the " \o w[obj_opt].name \o ".\n"
       ELSE IF obj_opt # None /\ obj_loc # None
       THEN "You got " \o w[obj_opt].name \o " from " \o w[obj_loc].name \o ".\n"
       ELSE "Please you have to drop something.\n"

\* move_object that also moves an object that has no location
move_object_any(w, obj_opt, to) ==
    CASE obj_opt = None -> [objects |-> w, output |-> ""]
      [] obj_opt # None /\ to = None ->
           [objects |-> w, output |-> "No one is present here to give.\n"]
      [] OTHER ->
           [objects |-> [w EXCEPT ![obj_opt].location = to],
            output |-> describe_move(w, obj_opt, to)]

move_object(w, obj_opt, to) ==
    LET obj_loc == IF obj_opt = None THEN None ELSE w[obj_opt].location
    IN CASE obj_opt = None -> [objects |-> w, output |-> ""]
         [] obj_opt # None /\ to = None ->
              [objects |-> w, output |-> "No one is present here to give.\n"]
         [] obj_opt # None /\ obj_loc = None /\ to # None ->
              [objects |-> w, output |-> "You cannot get that!!\n"]
         [] OTHER ->
              [objects |-> [w EXCEPT ![obj_opt].location = to],
               output |-> describe_move(w, obj_opt, to)]

\* get_possession that looks for the held object at the NotHere threshold
get_possession_far(w, from, commandName, noun) ==
    LET object_held == object_index(w, noun, from, "NotHere")
        object_not_here == object_index(w, noun, from, "NotHere")
    IN IF from = None
       THEN [output |-> "I don't understand what is needed " \o commandName \o ".\n",
             obj |-> None]
       ELSE IF object_held.tag = "None" /\ object_not_here.tag = "None"
       THEN [output |-> "Please use correct command for: " \o commandName \o ".\n",
             obj |-> None]
       ELSE IF object_held.tag = "None" /\ from = LOC_PLAYER
       THEN [output |-> "You are not holding any " \o noun \o ".\n", obj |-> None]
       ELSE IF object_held.tag = "Some" /\ object_held.index = from
       THEN [output |-> "It is illegal to do this: " \o w[object_held.index].name \o ".\n",
             obj |-> None]
       ELSE IF object_held.tag = "Ambiguous"
       THEN [output |-> "Please be more specific about which " \o noun
                        \o " you want to " \o commandName \o ".\n",
             obj |-> None]
       ELSE IF object_held.tag = "Some"
       THEN [output |-> "", obj |-> object_held.index]
       ELSE [output |-> "You don't see any " \o noun \o " here.\n", obj |-> None]

get_possession(w, from, commandName, noun) ==
    LET object_held == object_index(w, noun, from, "Held")
        object_not_here == object_index(w, noun, from, "NotHere")
    IN IF from = None
       THEN [output |-> "I don't understand what is needed " \o commandName \o ".\n",
             obj |-> None]
       ELSE IF object_held.tag = "None" /\ object_not_here.tag = "None"
       THEN [output |-> "Please use correct command for: " \o commandName \o ".\n",
             obj |-> None]
       ELSE IF object_held.tag = "None" /\ from = LOC_PLAYER
       THEN [output |-> "You are not holding any " \o noun \o ".\n", obj |-> None]
       ELSE IF object_held.tag = "Some" /\ object_held.index = from
       THEN [output |-> "It is illegal to do this: " \o w[object_held.index].name \o ".\n",
             obj |-> None]
       ELSE IF object_held.tag = "Ambiguous"
       THEN [output |-> "Please be more specific about which " \o noun
                        \o " you want to " \o commandName \o ".\n",
             obj |-> None]
       ELSE IF object_held.tag = "Some"
       THEN [output |-> "", obj |-> object_held.index]
       ELSE [output |-> "You don't see any " \o noun \o " here.\n", obj |-> None]

\* do_drop that puts the object down where the game starts, not where the player is
do_drop_start(w, noun) ==
    LET possession == get_possession(w, LOC_PLAYER, "drop", noun)
        moved == move_object(w, possession.obj, LOC_FOREST)
    IN [objects |-> moved.objects, output |-> possession.output \o moved.output]

do_drop(w, noun) ==
    LET possession == get_possession(w, LOC_PLAYER, "drop", noun)
        player_loc == w[LOC_PLAYER].location
        moved == move_object(w, possession.obj, player_loc)
    IN [objects |-> moved.objects, output |-> possession.output \o moved.output]

\* do_consume without the cap at 100
do_consume_nocap(w, object) ==
    LET heal == IF w[object].health = None THEN 0 ELSE w[object].health
        player_health == IF w[LOC_PLAYER].health = None THEN 0 ELSE w[LOC_PLAYER].health
    IN IF player_health = 100
       THEN [objects |-> w, output |-> "You are already at full health"]
       ELSE LET added == IF w[LOC_PLAYER].health = None THEN 0
                         ELSE w[LOC_PLAYER].health + heal
            IN [objects |-> [w EXCEPT ![LOC_PLAYER].health = added,
                                      ![object].location = None],
                output |-> "You have consumed the item. Your health has increased to "
                           \o ToString(added) \o "\n"]

\* do_consume that leaves the consumable where it is
do_consume_keep(w, object) ==
    LET heal == IF w[object].health = None THEN 0 ELSE w[object].health
        player_health == IF w[LOC_PLAYER].health = None THEN 0 ELSE w[LOC_PLAYER].health
    IN IF player_health = 100
       THEN [objects |-> w, output |-> "You are already at full health"]
       ELSE LET added == IF w[LOC_PLAYER].health = None THEN 0
                         ELSE w[LOC_PLAYER].health + heal
                capped == IF added > 100 THEN 100 ELSE added
            IN [objects |-> [w EXCEPT ![LOC_PLAYER].health = capped],
                output |-> "You have consumed the item. Your health has increased to "
                           \o ToString(capped) \o "\n"]

\* do_consume without the test for full health
do_consume_full(w, object) ==
    LET heal == IF w[object].health = None THEN 0 ELSE w[object].health
        added == IF w[LOC_PLAYER].health = None THEN 0
                 ELSE w[LOC_PLAYER].health + heal
        capped == IF added > 100 THEN 100 ELSE added
    IN [objects |-> [w EXCEPT ![LOC_PLAYER].health = capped,
                              ![object].location = None],
        output |-> "You have consumed the item. Your health has increased to "
                   \o ToString(capped) \o "\n"]

do_consume(w, object) ==
    LET heal == IF w[object].health = None THEN 0 ELSE w[object].health
        player_health == IF w[LOC_PLAYER].health = None THEN 0 ELSE w[LOC_PLAYER].health
    IN IF player_health = 100
       THEN [objects |-> w, output |-> "You are already at full health"]
       ELSE LET added == IF w[LOC_PLAYER].health = None THEN 0
                         ELSE w[LOC_PLAYER].health + heal
                capped == IF added > 100 THEN 100 ELSE added
            IN [objects |-> [w EXCEPT ![LOC_PLAYER].health = capped,
                                      ![object].location = None],
                output |-> "You have consumed the item. Your health has increased to "
                           \o ToString(capped) \o "\n"]

\* do_get without the arm that consumes: a consumable is picked up
do_get_noconsume(w, noun) ==
    LET vis == object_visible(w, noun)
        obj_opt == vis.obj
        obj_item == IF obj_opt = None THEN FALSE ELSE w[obj_opt].item
        player_to_obj == get_distance(w, LOC_PLAYER, obj_opt)
        obj_consumable == IF obj_opt = None THEN FALSE ELSE w[obj_opt].consumable
    IN CASE player_to_obj = "Player" ->
              [objects |-> w, output |-> vis.output \o "Invalid!! You cannot get that!!"]
         [] player_to_obj = "Held" /\ obj_opt # None /\ obj_item ->
              [objects |-> w,
               output |-> vis.output \o "You already have: " \o w[obj_opt].description \o ".\n"]
         [] player_to_obj = "OverThere" /\ obj_item ->
              [objects |-> w, output |-> vis.output \o "The item is not here. Try elsewhere!!\n"]
         [] player_to_obj = "OverThere" /\ ~obj_item /\ ~obj_consumable ->
              [objects |-> w, output |-> vis.output \o "You cannot get that!!\n"]
         [] player_to_obj = "Here" /\ ~obj_item /\ ~obj_consumable ->
              [objects |-> w, output |-> vis.output \o "You cannot get that!!\n"]
         [] player_to_obj = "Unknown" /\ ~obj_item /\ ~obj_consumable ->
              [objects |-> w, output |-> vis.output]
         [] OTHER -> move_object(w, obj_opt, LOC_PLAYER)

\* do_get without the arm that answers for a noun that resolves to nothing
do_get_silent(w, noun) ==
    LET vis == object_visible(w, noun)
        obj_opt == vis.obj
        obj_item == IF obj_opt = None THEN FALSE ELSE w[obj_opt].item
        player_to_obj == get_distance(w, LOC_PLAYER, obj_opt)
        obj_consumable == IF obj_opt = None THEN FALSE ELSE w[obj_opt].consumable
    IN CASE player_to_obj = "Player" ->
              [objects |-> w, output |-> vis.output \o "Invalid!! You cannot get that!!"]
         [] player_to_obj = "Held" /\ obj_opt # None /\ obj_item ->
              [objects |-> w,
               output |-> vis.output \o "You already have: " \o w[obj_opt].description \o ".\n"]
         [] player_to_obj = "OverThere" /\ obj_item ->
              [objects |-> w, output |-> vis.output \o "The item is not here. Try elsewhere!!\n"]
         [] player_to_obj = "OverThere" /\ ~obj_item /\ ~obj_consumable ->
              [objects |-> w, output |-> vis.output \o "You cannot get that!!\n"]
         [] player_to_obj = "Here" /\ ~obj_item /\ ~obj_consumable ->
              [objects |-> w, output |-> vis.output \o "You cannot get that!!\n"]
         [] player_to_obj = "Here" /\ obj_item /\ obj_consumable ->
              do_consume(w, obj_opt)
         [] OTHER -> move_object(w, obj_opt, LOC_PLAYER)

do_get(w, noun) ==
    LET vis == object_visible(w, noun)
        obj_opt == vis.obj
        obj_item == IF obj_opt = None THEN FALSE ELSE w[obj_opt].item
        player_to_obj == get_distance(w, LOC_PLAYER, obj_opt)
        obj_consumable == IF obj_opt = None THEN FALSE ELSE w[obj_opt].consumable
    IN CASE player_to_obj = "Player" ->
              [objects |-> w, output |-> vis.output \o "Invalid!! You cannot get that!!"]
         [] player_to_obj = "Held" /\ obj_opt # None /\ obj_item ->
              [objects |-> w,
               output |-> vis.output \o "You already have: " \o w[obj_opt].description \o ".\n"]
         [] player_to_obj = "OverThere" /\ obj_item ->
              [objects |-> w, output |-> vis.output \o "The item is not here. Try elsewhere!!\n"]
         [] player_to_obj = "OverThere" /\ ~obj_item /\ ~obj_consumable ->
              [objects |-> w, output |-> vis.output \o "You cannot get that!!\n"]
         [] player_to_obj = "Here" /\ ~obj_item /\ ~obj_consumable ->
              [objects |-> w, output |-> vis.output \o "You cannot get that!!\n"]
         [] player_to_obj = "Unknown" /\ ~obj_item /\ ~obj_consumable ->
              [objects |-> w, output |-> vis.output]
         [] player_to_obj = "Here" /\ obj_item /\ obj_consumable ->
              do_consume(w, obj_opt)
         [] OTHER -> move_object(w, obj_opt, LOC_PLAYER)

----------------------------------------------------------------------------
(* Combat *)

CombatHint ==
    "\nHint: Use the following commands when attacking: 'use <weapon name>' or 'inventory' or 'run'\n"

\* a - b on u64.  When b > a the build decides: with overflow checks the
\* process panics, without them the result wraps to 2^64 - (b - a).
U64Sub(a, b) ==
    IF a >= 0 /\ b > a
    THEN {[panicked |-> TRUE, value |-> a], [panicked |-> FALSE, value |-> a - b]}
    ELSE {[panicked |-> FALSE, value |-> a - b]}

\* rng.gen_range(0..attack), sampled
RngSamples(attack) == { a \in 0..(attack - 1) : a <= MaxRngSample \/ a = attack - 1 }

\* msg.split_whitespace().nth(1).unwrap_or_default()
SecondToken(msg) == IF Len(msg) >= 2 THEN msg[2] ELSE ""

\* A comparison of whole words in place of str::contains
WordContains_exact(word, pattern) == word = pattern

\* str::contains on a word of the model's vocabulary
WordContains(word, pattern) ==
    \/ word = pattern
    \/ word = "runeblade" /\ pattern = "run"

\* command.contains(pattern) on a line given as its words
Contains(line, pattern) == \E i \in 1..Len(line) : WordContains(line[i], pattern)

\* do_use that takes only what the player holds for a weapon
do_use_held(w, msg, health, index) ==
    LET noun == SecondToken(msg)
        vis == object_visible(w, noun)
    IN IF vis.obj = None
       THEN {[objects |-> w, obj_health |-> health, output |-> vis.output, panicked |-> FALSE]}
       ELSE IF w[vis.obj].kind # "Weapon" \/ w[vis.obj].location # LOC_PLAYER
       THEN {[objects |-> w, obj_health |-> health,
              output |-> "That is not a weapon!!"
                         \o "\nHint: Use the following commands: use <weapon name> or run\n",
              panicked |-> FALSE]}
       ELSE IF w[index].kind # "Enemy"
       THEN {[objects |-> w, obj_health |-> health, output |-> "", panicked |-> FALSE]}
       ELSE
         LET attack_pwr == w[vis.obj].attack
             enemy == w[index]
             attacked(h) == "You attacked the " \o enemy.name \o ".\nEnemy health: "
                            \o U64ToString(h)
             Retaliation(h) ==
                 LET text == attacked(h) \o "\n\nThe " \o enemy.name \o " attacks"
                 IN UNION { IF attack = 0
                            THEN {[objects |-> w, obj_health |-> h,
                                   output |-> text \o "\nYou dodged the attack",
                                   panicked |-> FALSE]}
                            ELSE { IF hit.panicked
                                   THEN [objects |-> w, obj_health |-> h,
                                         output |-> text \o "\nYou got hit",
                                         panicked |-> TRUE]
                                   ELSE [objects |-> w, obj_health |-> h,
                                         output |-> text \o "\nYou got hit"
                                                    \o "\nYour health: " \o U64ToString(hit.value),
                                         panicked |-> FALSE]
                                   : hit \in U64Sub(w[LOC_PLAYER].health, attack) }
                            : attack \in RngSamples(enemy.attack) }
         IN UNION { IF sub.panicked
                    THEN {[objects |-> w, obj_health |-> health, output |-> "",
                           panicked |-> TRUE]}
                    ELSE IF sub.value = 0
                    THEN {[objects |-> w, obj_health |-> 0, output |-> attacked(0),
                           panicked |-> FALSE]}
                    ELSE Retaliation(sub.value)
                    : sub \in U64Sub(health, attack_pwr) }


\* do_use that writes the enemy's new health into the World
do_use_persist(w, msg, health, index) ==
    LET noun == SecondToken(msg)
        vis == object_visible(w, noun)
    IN IF vis.obj = None
       THEN {[objects |-> w, obj_health |-> health, output |-> vis.output, panicked |-> FALSE]}
       ELSE IF w[vis.obj].kind # "Weapon"
       THEN {[objects |-> w, obj_health |-> health,
              output |-> "That is not a weapon!!"
                         \o "\nHint: Use the following commands: use <weapon name> or run\n",
              panicked |-> FALSE]}
       ELSE IF w[index].kind # "Enemy"
       THEN {[objects |-> w, obj_health |-> health, output |-> "", panicked |-> FALSE]}
       ELSE
         LET attack_pwr == w[vis.obj].attack
             enemy == w[index]
             attacked(h) == "You attacked the " \o enemy.name \o ".\nEnemy health: "
                            \o U64ToString(h)
             Retaliation(h) ==
                 LET text == attacked(h) \o "\n\nThe " \o enemy.name \o " attacks"
                 IN UNION { IF attack = 0
                            THEN {[objects |-> [w EXCEPT ![index].health = h], obj_health |-> h,
                                   output |-> text \o "\nYou dodged the attack",
                                   panicked |-> FALSE]}
                            ELSE { IF hit.panicked
                                   THEN [objects |-> [w EXCEPT ![index].health = h], obj_health |-> h,
                                         output |-> text \o "\nYou got hit",
                                         panicked |-> TRUE]
                                   ELSE [objects |-> [w EXCEPT ![index].health = h], obj_health |-> h,
                                         output |-> text \o "\nYou got hit"
                                                    \o "\nYour health: " \o U64ToString(hit.value),
                                         panicked |-> FALSE]
                                   : hit \in U64Sub(w[LOC_PLAYER].health, attack) }
                            : attack \in RngSamples(enemy.attack) }
         IN UNION { IF sub.panicked
                    THEN {[objects |-> w, obj_health |-> health, output |-> "",
                           panicked |-> TRUE]}
                    ELSE IF sub.value = 0
                    THEN {[objects |-> w, obj_health |-> 0, output |-> attacked(0),
                           panicked |-> FALSE]}
                    ELSE Retaliation(sub.value)
                    : sub \in U64Sub(health, attack_pwr) }


\* do_use: the set of outcomes [objects, obj_health, output, panicked].
\* `enemy` and `player` are values taken out of the World, so the writes to
\* enemy.health and player.health change those values and not the World.
do_use(w, msg, health, index) ==
    LET noun == SecondToken(msg)
        vis == object_visible(w, noun)
    IN IF vis.obj = None
       THEN {[objects |-> w, obj_health |-> health, output |-> vis.output, panicked |-> FALSE]}
       ELSE IF w[vis.obj].kind # "Weapon"
       THEN {[objects |-> w, obj_health |-> health,
              output |-> "That is not a weapon!!"
                         \o "\nHint: Use the following commands: use <weapon name> or run\n",
              panicked |-> FALSE]}
       ELSE IF w[index].kind # "Enemy"
       THEN {[objects |-> w, obj_health |-> health, output |-> "", panicked |-> FALSE]}
       ELSE
         LET attack_pwr == w[vis.obj].attack
             enemy == w[index]
             attacked(h) == "You attacked the " \o enemy.name \o ".\nEnemy health: "
                            \o U64ToString(h)
             Retaliation(h) ==
                 LET text == attacked(h) \o "\n\nThe " \o enemy.name \o " attacks"
                 IN UNION { IF attack = 0
                            THEN {[objects |-> w, obj_health |-> h,
                                   output |-> text \o "\nYou dodged the attack",
                                   panicked |-> FALSE]}
                            ELSE { IF hit.panicked
                                   THEN [objects |-> w, obj_health |-> h,
                                         output |-> text \o "\nYou got hit",
                                         panicked |-> TRUE]
                                   ELSE [objects |-> w, obj_health |-> h,
                                         output |-> text \o "\nYou got hit"
                                                    \o "\nYour health: " \o U64ToString(hit.value),
                                         panicked |-> FALSE]
                                   : hit \in U64Sub(w[LOC_PLAYER].health, attack) }
                            : attack \in RngSamples(enemy.attack) }
         IN UNION { IF sub.panicked
                    THEN {[objects |-> w, obj_health |-> health, output |-> "",
                           panicked |-> TRUE]}
                    ELSE IF sub.value = 0
                    THEN {[objects |-> w, obj_health |-> 0, output |-> attacked(0),
                           panicked |-> FALSE]}
                    ELSE Retaliation(sub.value)
                    : sub \in U64Sub(health, attack_pwr) }

\* do_attack without the test for an enemy that is already dead
do_attack_nodead(w, noun) ==
    LET vis == object_visible(w, noun)
        stay(text) == [enter |-> FALSE, output |-> text, obj_index |-> None,
                       obj_health |-> 0, player |-> 0]
    IN IF vis.obj = None THEN stay(vis.output)
       ELSE IF w[vis.obj].kind # "Enemy"
       THEN stay("You can't attack the " \o noun \o ".\n")
       ELSE [enter |-> TRUE,
             output |-> "\nYou are attacking the " \o w[vis.obj].name \o ".\n" \o CombatHint,
             obj_index |-> vis.obj,
             obj_health |-> w[vis.obj].health,
             player |-> w[LOC_PLAYER].health]

\* do_attack up to its loop: [enter, output, obj_index, obj_health, player]
do_attack(w, noun) ==
    LET vis == object_visible(w, noun)
        stay(text) == [enter |-> FALSE, output |-> text, obj_index |-> None,
                       obj_health |-> 0, player |-> 0]
    IN IF vis.obj = None THEN stay(vis.output)
       ELSE IF w[vis.obj].kind # "Enemy"
       THEN stay("You can't attack the " \o noun \o ".\n")
       ELSE IF w[vis.obj].health = 0
       THEN stay("The " \o w[vis.obj].name \o " is already dead.\n")
       ELSE [enter |-> TRUE,
             output |-> "\nYou are attacking the " \o w[vis.obj].name \o ".\n" \o CombatHint,
             obj_index |-> vis.obj,
             obj_health |-> w[vis.obj].health,
             player |-> w[LOC_PLAYER].health]

\* game_over that is content with one dead enemy
game_over_any(w) ==
    LET player_health == w[LOC_PLAYER].health
        some_enemy_dead ==
            \E index \in {LOC_BEAR, LOC_TROLL, LOC_BANDITS} :
                w[index].kind = "Enemy" /\ w[index].health = 0
    IN IF player_health = 0 THEN TRUE
       ELSE IF some_enemy_dead THEN TRUE
       ELSE FALSE

\* game_over: the player's health is 0, or every one of Bear, Troll and
\* Bandits that is an Enemy has health 0
game_over(w) ==
    LET player_health == w[LOC_PLAYER].health
        all_enemies_dead ==
            \A index \in {LOC_BEAR, LOC_TROLL, LOC_BANDITS} :
                w[index].kind = "Enemy" => w[index].health = 0
    IN IF player_health = 0 THEN TRUE
       ELSE IF all_enemies_dead THEN TRUE
       ELSE FALSE

----------------------------------------------------------------------------
(* Inputs *)

\* The fold of parse: the words joined by single spaces
RECURSIVE JoinWords(_)
JoinWords(words) ==
    IF words = <<>> THEN ""
    ELSE IF Len(words) = 1 THEN words[1]
    ELSE words[1] \o " " \o JoinWords(Tail(words))

\* Words typed after a verb
NounWords == { <<>>, <<"dance">>, <<"tavern">>, <<"master", "of", "none">>,
               <<"troll">>, <<"sword">>, <<"bow">>, <<"apple">>, <<"potion">>,
               <<"north">>, <<"east">>, <<"west">> }

\* Nouns typed after a verb (parse has lowercased them)
Nouns == { JoinWords(words) : words \in NounWords }

\* Nouns typed after look
LookNouns == {"", "tavern"}

\* The verbs parse knows
Verbs == {"look", "go", "quit", "attack", "drop", "get", "help", "inventory", "map"}

\* The whitespace a line can hold between, before and after its words
Spaces == {" ", "  ", "\n"}

NotSpace(piece) == piece \notin Spaces

\* A line as read_line returns it: words parted by one space, ended by the newline
RECURSIVE Typed(_)
Typed(words) ==
    IF words = <<>> THEN <<"\n">>
    ELSE IF Len(words) = 1 THEN <<words[1], "\n">>
    ELSE <<words[1], " ">> \o Typed(Tail(words))

\* Lines typed at the prompt, as their pieces: words and the whitespace around them
\* (the empty line is the end of the input)
Lines ==
    { Typed(<<verb>> \o words) : verb \in {"go", "attack", "drop", "get"}, words \in NounWords }
    \cup { Typed(<<"look">>), Typed(<<"look", "tavern">>), Typed(<<"LOOK">>),
           Typed(<<"Get", "SWORD">>), Typed(<<"quit">>), Typed(<<"help">>),
           Typed(<<"inventory">>), Typed(<<"inventory", "sword">>), Typed(<<"map">>),
           Typed(<<>>), <<>>, Typed(<<"dance">>), Typed(<<"Dance", "Wildly">>),
           <<"  ", "dance", "  ", "wildly", " ", "\n">>,
           <<" ", "look", "  ", "tavern", "\n">>,
           Typed(<<"use", "sword">>), Typed(<<"north">>) }

\* str::split_whitespace: the words of a line
split_whitespace(line) == SelectSeq(line, NotSpace)

\* str::trim: the line without the whitespace at its two ends
RECURSIVE trim_start(_)
trim_start(line) ==
    IF line = <<>> THEN <<>>
    ELSE IF NotSpace(Head(line)) THEN line
    ELSE trim_start(Tail(line))

RECURSIVE trim_end(_)
trim_end(line) ==
    IF line = <<>> THEN <<>>
    ELSE IF NotSpace(line[Len(line)]) THEN line
    ELSE trim_end(SubSeq(line, 1, Len(line) - 1))

trim(line) == trim_end(trim_start(line))

\* The text of a line: its pieces one after the other
RECURSIVE Text(_)
Text(line) == IF line = <<>> THEN "" ELSE Head(line) \o Text(Tail(line))

\* Lines typed inside the combat loop, as their words (read raw, not lowercased)
CombatLines == { <<"run">>, <<"inventory">>, <<"use">>, <<"use", "sword">>,
                 <<"use", "bow">>, <<"use", "troll">>, <<"use", "potion">>,
                 <<"use", "runeblade">>, <<"use", "inventory">>,
                 <<"run", "inventory">>, <<"hello">> }

Cmd(kind, noun) == [kind |-> kind, noun |-> noun, line |-> <<>>]

NoCmd == Cmd("", "")

\* parse that takes every line starting with an unknown verb for help
parse_help(line) ==
    LET input == [i \in 1..Len(line) |-> ToLowercase(line[i])]
        split_input == split_whitespace(input)
        verb == IF split_input = <<>> THEN "" ELSE Head(split_input)
        noun == IF split_input = <<>> THEN "" ELSE JoinWords(Tail(split_input))
    IN CASE verb = "look" -> Cmd("look", noun)
         [] verb = "go" -> Cmd("go", noun)
         [] verb = "quit" -> Cmd("quit", "")
         [] verb = "attack" -> Cmd("attack", noun)
         [] verb = "drop" -> Cmd("drop", noun)
         [] verb = "get" -> Cmd("get", noun)
         [] verb = "inventory" -> Cmd("inventory", "")
         [] verb = "map" -> Cmd("map", "")
         [] OTHER -> Cmd("help", "")

\* parse: the Command of a line (Unknown carries the lowercased line)
parse(line) ==
    LET input == [i \in 1..Len(line) |-> ToLowercase(line[i])]
        split_input == split_whitespace(input)
        verb == IF split_input = <<>> THEN "" ELSE Head(split_input)
        noun == IF split_input = <<>> THEN "" ELSE JoinWords(Tail(split_input))
    IN CASE verb = "look" -> Cmd("look", noun)
         [] verb = "go" -> Cmd("go", noun)
         [] verb = "quit" -> Cmd("quit", "")
         [] verb = "attack" -> Cmd("attack", noun)
         [] verb = "drop" -> Cmd("drop", noun)
         [] verb = "get" -> Cmd("get", noun)
         [] verb = "help" -> Cmd("help", "")
         [] verb = "inventory" -> Cmd("inventory", "")
         [] verb = "map" -> Cmd("map", "")
         [] OTHER -> Cmd("unknown", Text(trim(input)))

\* get_input: the Commands of the lines typed
Commands == { parse(line) : line \in Lines }

----------------------------------------------------------------------------
(* The session *)

Init ==
    /\ objects \in InitWorlds
    /\ pc = "get_input"
    /\ command = NoCmd
    /\ output = ""
    /\ obj_index = None
    /\ obj_health = 0
    /\ player = 0

\* get_input and update_state for a command that returns at once
Respond(cmd, w, text) ==
    /\ pc = "get_input"
    /\ pc' = "update_screen"
    /\ objects' = w
    /\ output' = text
    /\ command' = cmd
    /\ UNCHANGED <<obj_index, obj_health, player>>

Look(noun) == Respond(Cmd("look", noun), objects, do_look(objects, noun))

Go(noun) ==
    LET r == do_go(objects, noun)
    IN Respond(Cmd("go", noun), r.objects, r.output)

Quit == Respond(Cmd("quit", ""), objects, "Quitting.\nThank you for playing!")

Drop(noun) ==
    LET r == do_drop(objects, noun)
    IN Respond(Cmd("drop", noun), r.objects, r.output)

Get(noun) ==
    LET r == do_get(objects, noun)
    IN Respond(Cmd("get", noun), r.objects, r.output)

Inventory == Respond(Cmd("inventory", ""), objects, do_inventory(objects))

Help == Respond(Cmd("help", ""), objects, display_help)

Map == Respond(Cmd("map", ""), objects, display_locations(objects))

Unknown(text) == Respond(Cmd("unknown", text), objects, "Invalid command!!\n" \o display_help)

\* The main loop stops after the Quit command and once the game is over
SessionEnds(cmd, w) == cmd.kind = "quit" \/ game_over(w)

\* update_screen shows the text; the main loop goes back to get_input or stops
UpdateScreen ==
    /\ pc = "update_screen"
    /\ pc' = IF SessionEnds(command, objects) THEN "done" ELSE "get_input"
    /\ output' = ""
    /\ command' = NoCmd
    /\ UNCHANGED <<objects, obj_index, obj_health, player>>

\* do_attack until it returns or reaches its loop
Attack(noun) ==
    LET r == do_attack(objects, noun)
    IN /\ pc = "get_input"
       /\ pc' = IF r.enter THEN "loop" ELSE "update_screen"
       /\ command' = Cmd("attack", noun)
       /\ output' = r.output
       /\ obj_index' = r.obj_index
       /\ obj_health' = r.obj_health
       /\ player' = r.player
       /\ UNCHANGED objects

\* do_attack returns text to update_state's caller: its locals are gone
Return(text) ==
    /\ pc' = "update_screen"
    /\ output' = text
    /\ obj_index' = None
    /\ obj_health' = 0
    /\ player' = 0

\* The text with which do_attack returns after leaving its loop
AfterLoop(health) ==
    IF health = 0
    THEN "\nYou killed the " \o objects[obj_index].name \o ".\n"
    ELSE "You ran away from the " \o objects[obj_index].name \o ".\n"

\* Head of the loop: the local player value is tested, then the prompt is
\* printed and a line awaited
LoopHead ==
    /\ pc = "loop"
    /\ IF player = 0
       THEN /\ Return("\nYou died")
            /\ UNCHANGED command
       ELSE /\ pc' = "read_line"
            /\ output' = ""
            /\ command' = NoCmd
            /\ UNCHANGED <<obj_index, obj_health, player>>
    /\ UNCHANGED objects

CombatCmd(line) == [kind |-> "combat", noun |-> SecondToken(line), line |-> line]

CombatRun(line) ==
    /\ pc = "read_line"
    /\ Contains(line, "run")
    /\ command' = CombatCmd(line)
    /\ Return(AfterLoop(obj_health))
    /\ UNCHANGED objects

CombatInventory(line) ==
    /\ pc = "read_line"
    /\ ~Contains(line, "run")
    /\ Contains(line, "inventory")
    /\ command' = CombatCmd(line)
    /\ pc' = "loop"
    /\ output' = do_inventory(objects)
    /\ UNCHANGED <<objects, obj_index, obj_health, player>>

CombatUse(line) ==
    /\ pc = "read_line"
    /\ ~Contains(line, "run")
    /\ ~Contains(line, "inventory")
    /\ Contains(line, "use")
    /\ obj_health > -MaxWrapped
    /\ command' = CombatCmd(line)
    /\ \E r \in do_use(objects, line, obj_health, obj_index) :
          /\ objects' = r.objects
          /\ IF r.panicked
             THEN /\ pc' = "panicked"
                  /\ output' = r.output
                  /\ UNCHANGED <<obj_index, obj_health, player>>
             ELSE IF r.obj_health = 0
             THEN Return(r.output \o AfterLoop(r.obj_health))
             ELSE /\ pc' = "loop"
                  /\ output' = r.output
                  /\ obj_health' = r.obj_health
                  /\ UNCHANGED <<obj_index, player>>

CombatOther(line) ==
    /\ pc = "read_line"
    /\ ~Contains(line, "run")
    /\ ~Contains(line, "inventory")
    /\ ~Contains(line, "use")
    /\ command' = CombatCmd(line)
    /\ pc' = "loop"
    /\ output' = CombatHint
    /\ UNCHANGED <<objects, obj_index, obj_health, player>>

Next ==
    \/ \E cmd \in Commands : cmd.kind = "look" /\ Look(cmd.noun)
    \/ \E cmd \in Commands : cmd.kind = "go" /\ Go(cmd.noun)
    \/ \E cmd \in Commands : cmd.kind = "quit" /\ Quit
    \/ \E cmd \in Commands : cmd.kind = "attack" /\ Attack(cmd.noun)
    \/ \E cmd \in Commands : cmd.kind = "drop" /\ Drop(cmd.noun)
    \/ \E cmd \in Commands : cmd.kind = "get" /\ Get(cmd.noun)
    \/ \E cmd \in Commands : cmd.kind = "inventory" /\ Inventory
    \/ \E cmd \in Commands : cmd.kind = "help" /\ Help
    \/ \E cmd \in Commands : cmd.kind = "map" /\ Map
    \/ \E cmd \in Commands : cmd.kind = "unknown" /\ Unknown(cmd.noun)
    \/ UpdateScreen
    \/ LoopHead
    \/ \E line \in CombatLines : CombatRun(line)
    \/ \E line \in CombatLines : CombatInventory(line)
    \/ \E line \in CombatLines : CombatUse(line)
    \/ \E line \in CombatLines : CombatOther(line)

Spec == Init /\ [][Next]_vars

----------------------------------------------------------------------------
(* Vocabulary of the properties *)

\* The objects named noun (case-insensitively) within max_distance of the player
MatchSet(w, noun, max_distance) ==
    { i \in Indices(w) :
        /\ ToLowercase(w[i].name) = ToLowercase(noun)
        /\ DistanceLe(get_distance(w, LOC_PLAYER, i), max_distance) }

\* The one object named noun within OverThere of the player, if there is exactly one
UniqueVisible(w, noun) ==
    LET S == MatchSet(w, noun, "OverThere")
    IN IF Cardinality(S) = 1 THEN CHOOSE i \in S : TRUE ELSE None

\* The one object named noun that is the player or held by the player
UniqueHeld(w, noun) ==
    LET S == MatchSet(w, noun, "Held")
    IN IF Cardinality(S) = 1 THEN CHOOSE i \in S : TRUE ELSE None

\* This step handles the top-level command `kind`
CommandStep(kind) == pc = "get_input" /\ command'.kind = kind

\* This step handles a combat line classified as `use`
UseStep ==
    /\ pc = "read_line"
    /\ command'.kind = "combat"
    /\ ~Contains(command'.line, "run")
    /\ ~Contains(command'.line, "inventory")
    /\ Contains(command'.line, "use")

SpecificMsg(noun) ==
    "Please be more specific about which " \o noun
    \o " you mean. Try typing out the location.\n"

NotSeenMsg(noun) == "You don't see any '" \o noun \o "' here.\n"

Min(a, b) == IF a <= b THEN a ELSE b

----------------------------------------------------------------------------
(* C1 *)

\* C1: a combat 'use' of a weapon whose attack_points exceed the enemy's
\* remaining combat health ends combat in EnemyDead with enemy health 0:
\* the step neither wraps the health nor aborts the program.
C1_UseClampsAtZero ==
    [][ \A i \in Indices(objects) :
          ( /\ UseStep
            /\ UniqueVisible(objects, command'.noun) = i
            /\ objects[i].kind = "Weapon"
            /\ obj_health >= 0
            /\ objects[i].attack > obj_health )
          => ( /\ pc' = "update_screen"
               /\ output' = "You attacked the " \o objects[obj_index].name
                            \o ".\nEnemy health: 0"
                            \o "\nYou killed the " \o objects[obj_index].name \o ".\n" )
      ]_vars

----------------------------------------------------------------------------
(* C2 *)

\* C2: in every state the Player's health and every Enemy's health stored in
\* the World lie within 0..100.
C2_StoredHealthInRange ==
    /\ objects[LOC_PLAYER].health \in 0..100
    /\ \A i \in Indices(objects) :
          objects[i].kind = "Enemy" => objects[i].health \in 0..100

\* Both consumables were taken from health 80: 80 + 10 + 20 was capped at 100
C2_Witness ==
    /\ pc = "update_screen"
    /\ command.kind = "get"
    /\ objects[IDX_APPLE].location = None
    /\ objects[IDX_POTION].location = None
    /\ objects[LOC_PLAYER].health = 100

----------------------------------------------------------------------------
(* C3 *)

\* The Distance the rules of the classifier give, first matching rule first
DistanceRule(w, from, to) ==
    IF to = None THEN "Unknown"
    ELSE IF to = from THEN "Player"
    ELSE IF w[to].location = from THEN "Held"
    ELSE IF from # None /\ w[from].location = to THEN "Location"
    ELSE IF from # None /\ w[from].location # None
            /\ w[to].location = w[from].location THEN "Here"
    ELSE IF from # None /\ w[from].location # None
            /\ \E p \in Indices(w) : /\ w[p].location = w[from].location
                                     /\ w[p].destination = to THEN "OverThere"
    ELSE "NotHere"

OptRefs(w) == Indices(w) \cup {None}

\* C3: for every pair (from, to) of optional references, in every World the
\* session reaches, get_distance returns the Distance of the first matching
\* rule, and Player only when from = to.
C3_DistanceRules ==
    pc = "get_input" =>
        \A from \in OptRefs(objects), to \in OptRefs(objects) :
            /\ get_distance(objects, from, to) = DistanceRule(objects, from, to)
            /\ get_distance(objects, from, to) = "Player" => from = to

\* A World in which the player is at each of the six distances from some object
C3_Witness ==
    /\ pc = "get_input"
    /\ \A d \in {"Player", "Held", "Location", "Here", "OverThere", "NotHere"} :
          \E to \in Indices(objects) : get_distance(objects, LOC_PLAYER, to) = d

----------------------------------------------------------------------------
(* C4 *)

\* The objects named noun within max_distance of from
Matches(w, noun, from, max_distance) ==
    { i \in Indices(w) :
        /\ ToLowercase(w[i].name) = ToLowercase(noun)
        /\ DistanceLe(get_distance(w, from, i), max_distance) }

IndexNouns == Nouns \cup {"SWORD"}

\* C4: object_index returns None when no object named noun lies within
\* max_distance of from, Some(index) when exactly one does, and Ambiguous
\* when two or more do, whichever of them is closer.
C4_ObjectIndexCounts ==
    pc = "get_input" =>
        \A noun \in IndexNouns, from \in {LOC_PLAYER, None},
           max_distance \in {"Player", "Held", "Here", "OverThere", "NotHere", "Unknown"} :
            LET S == Matches(objects, noun, from, max_distance)
                r == object_index(objects, noun, from, max_distance)
            IN /\ S = {} => r = AONone
               /\ Cardinality(S) = 1 => r = AOSome(CHOOSE i \in S : TRUE)
               /\ Cardinality(S) >= 2 => r = AOAmbiguous

\* Two objects named sword at different distances: one held, one NotHere
C4_Witness ==
    /\ pc = "get_input"
    /\ \E i, j \in Matches(objects, "sword", LOC_PLAYER, "NotHere") :
          /\ get_distance(objects, LOC_PLAYER, i) = "Held"
          /\ get_distance(objects, LOC_PLAYER, j) = "NotHere"
    /\ object_index(objects, "sword", LOC_PLAYER, "NotHere") = AOAmbiguous
    /\ object_index(objects, "sword", LOC_PLAYER, "OverThere").tag = "Some"

----------------------------------------------------------------------------
(* C5 *)

Near(w, noun) == Cardinality(MatchSet(w, noun, "OverThere"))

Far(w, noun) == Cardinality(MatchSet(w, noun, "NotHere"))

\* The step answers with the request to be more specific and goes on with no object
AsksToBeSpecific ==
    /\ output' = SpecificMsg(command'.noun)
    /\ objects' = objects
    /\ pc' = "update_screen"

\* C5 as stated: whenever the noun of a Get or Attack is ambiguous at either
\* threshold (OverThere or NotHere), the command asks the user to be more
\* specific and proceeds with no object.
C5_AmbiguousAtEitherThreshold ==
    [][ ( /\ CommandStep("get") \/ CommandStep("attack")
          /\ Near(objects, command'.noun) >= 2 \/ Far(objects, command'.noun) >= 2 )
        => AsksToBeSpecific
      ]_vars

\* C5 amended: a Get or Attack asks the user to be more specific, and proceeds
\* with no object, when two or more matches lie within OverThere, or none
\* lies within OverThere and two or more within NotHere; when exactly one
\* match lies within OverThere it proceeds with that object, also when two
\* or more lie within NotHere.
C5_AmbiguousAmongVisible ==
    [][ (CommandStep("get") \/ CommandStep("attack")) =>
          LET noun == command'.noun
              near == Near(objects, noun)
              far == Far(objects, noun)
              i == UniqueVisible(objects, noun)
          IN /\ (near >= 2 \/ (near = 0 /\ far >= 2)) => AsksToBeSpecific
             /\ (near = 1 /\ far >= 2) =>
                   /\ output' # SpecificMsg(noun)
                   /\ ( /\ command'.kind = "get"
                        /\ objects[i].kind = "Weapon"
                        /\ objects[i].location = objects[LOC_PLAYER].location )
                      => objects'[i].location = LOC_PLAYER
                   /\ ( /\ command'.kind = "attack"
                        /\ objects[i].kind = "Enemy"
                        /\ objects[i].health > 0 )
                      => (pc' = "loop" /\ obj_index' = i)
      ]_vars

\* A sword was picked up while another object named sword lay out of sight
C5_Witness ==
    /\ pc = "update_screen"
    /\ command = Cmd("get", "sword")
    /\ output = "You pick up the Sword.\n"
    /\ \E i, j \in MatchSet(objects, "sword", "NotHere") :
          /\ objects[i].location = LOC_PLAYER
          /\ get_distance(objects, LOC_PLAYER, j) = "NotHere"

----------------------------------------------------------------------------
(* C6 *)

\* C6: a Get or Attack whose noun names one object, matched only at the
\* NotHere threshold, returns "You don't see any '<noun>' here." (ended by a
\* newline), and a noun that matches no object returns the invalid-command
\* text; in both cases the World is unchanged and no combat is entered.
C6_OutOfSightOrUnknown ==
    [][ (CommandStep("get") \/ CommandStep("attack")) =>
          LET noun == command'.noun
          IN /\ (Near(objects, noun) = 0 /\ Far(objects, noun) = 1) =>
                   /\ output' = NotSeenMsg(noun)
                   /\ objects' = objects
                   /\ pc' = "update_screen"
             /\ Far(objects, noun) = 0 =>
                   /\ output' = "Invalid command!!"
                   /\ objects' = objects
                   /\ pc' = "update_screen"
      ]_vars

\* 'get potion' in the built-in world: the player in Forest, the Potion in Village
C6_Witness ==
    /\ pc = "update_screen"
    /\ command = Cmd("get", "potion")
    /\ objects = WorldNew
    /\ objects[LOC_PLAYER].location = LOC_FOREST
    /\ objects[IDX_POTION].location = LOC_VILLAGE
    /\ output = "You don't see any 'potion' here.\n"

----------------------------------------------------------------------------
(* C7 *)

\* C7: Get on a Consumable lying in the player's location while the player's
\* health h is below 100 sets the health to min(100, h + heal_amount) and the
\* consumable's location to none, and changes no other object.
C7_GetConsumes ==
    [][ \A i \in Indices(objects) :
          ( /\ CommandStep("get")
            /\ UniqueVisible(objects, command'.noun) = i
            /\ objects[i].kind = "Consumable"
            /\ objects[i].location = objects[LOC_PLAYER].location
            /\ objects[LOC_PLAYER].health < 100 )
          => objects' = [objects EXCEPT
                           ![LOC_PLAYER].health = Min(100, @ + objects[i].health),
                           ![i].location = None]
      ]_vars

\* Health 80 and the Potion (heal 20): health 100, the Potion gone, the Apple untouched
C7_Witness ==
    /\ pc = "update_screen"
    /\ command = Cmd("get", "potion")
    /\ objects[LOC_PLAYER].health = 100
    /\ objects[IDX_POTION].location = None
    /\ objects[IDX_APPLE].location = LOC_TAVERN
    /\ output = "You have consumed the item. Your health has increased to 100\n"

----------------------------------------------------------------------------
(* C8 *)

\* C8: a Get that heals the player leaves the consumable it names with no
\* location; a Consumable whose location is none keeps it in every later
\* step; and a later Get, Drop or combat 'use' naming it leaves the World
\* unchanged (no healing, no placement).
C8_ConsumedStaysGone ==
    [][ /\ \A i \in Indices(objects) :
             (objects[i].kind = "Consumable" /\ objects[i].location = None) =>
                /\ objects'[i].location = None
                /\ ( /\ CommandStep("get") \/ CommandStep("drop") \/ UseStep
                     /\ ToLowercase(objects[i].name) = ToLowercase(command'.noun) )
                   => objects' = objects
        /\ ( /\ CommandStep("get")
             /\ objects'[LOC_PLAYER].health # objects[LOC_PLAYER].health )
           => \E i \in Indices(objects) :
                 /\ objects[i].kind = "Consumable"
                 /\ ToLowercase(objects[i].name) = ToLowercase(command'.noun)
                 /\ objects[i].location # None
                 /\ objects'[i].location = None
      ]_vars

\* The Potion was consumed, and a later 'get potion' found nothing to take
C8_Witness ==
    /\ pc = "update_screen"
    /\ command = Cmd("get", "potion")
    /\ objects[IDX_POTION].location = None
    /\ output = "You don't see any 'potion' here.\n"

----------------------------------------------------------------------------
(* C9 *)

\* C9: Drop changes the World only when the noun resolves uniquely to an
\* object held by the player, and then sets exactly that object's location
\* to the player's location; otherwise the World is unchanged and a message
\* is returned, which for the player itself says that this is illegal.
C9_DropOnlyHeld ==
    [][ CommandStep("drop") =>
          LET i == UniqueHeld(objects, command'.noun)
          IN IF i # None /\ i # LOC_PLAYER
             THEN objects' = [objects EXCEPT
                                ![i].location = objects[LOC_PLAYER].location]
             ELSE /\ objects' = objects
                  /\ output' # ""
                  /\ i = LOC_PLAYER =>
                        output' = "It is illegal to do this: Master of None.\n"
      ]_vars

\* The held Sword was dropped in the Dungeons' neighbour, the Tavern
C9_Witness ==
    /\ pc = "update_screen"
    /\ command = Cmd("drop", "sword")
    /\ output = "You have dropped Sword.\n"
    /\ objects[LOC_PLAYER].location = LOC_TAVERN
    /\ objects[IDX_SWORD].location = LOC_TAVERN

----------------------------------------------------------------------------
(* C10 *)

\* C10: Attack enters the combat loop exactly when the noun resolves, within
\* OverThere of the player, to an Enemy whose stored health is above 0; for
\* another object it answers that it cannot be attacked, for an enemy with
\* health 0 that it is already dead; no Attack step changes the World.
C10_AttackOnlyLivingEnemy ==
    [][ CommandStep("attack") =>
          LET noun == command'.noun
              i == UniqueVisible(objects, noun)
              living == i # None /\ objects[i].kind = "Enemy" /\ objects[i].health > 0
          IN /\ objects' = objects
             /\ (pc' = "loop") <=> living
             /\ living => (obj_index' = i /\ obj_health' = objects[i].health)
             /\ ~living => (pc' = "update_screen" /\ obj_index' = None)
             /\ (i # None /\ objects[i].kind # "Enemy") =>
                   output' = "You can't attack the " \o noun \o ".\n"
             /\ (i # None /\ objects[i].kind = "Enemy" /\ objects[i].health = 0) =>
                   output' = "The " \o objects[i].name \o " is already dead.\n"
      ]_vars

\* Combat against the living Troll was entered
C10_Witness ==
    /\ pc = "loop"
    /\ command = Cmd("attack", "troll")
    /\ obj_index = LOC_TROLL
    /\ obj_health = 100
    /\ objects[LOC_TROLL].health = 100

----------------------------------------------------------------------------
(* Vocabulary of the combat properties *)

\* The report of a use that left the enemy with health h
AttackedMsg(name, h) ==
    "You attacked the " \o name \o ".\nEnemy health: " \o U64ToString(h)

KilledMsg(name) == "\nYou killed the " \o name \o ".\n"

FledMsg(name) == "You ran away from the " \o name \o ".\n"

DiedMsg == "\nYou died"

\* The report of a use followed by a dodged retaliation
DodgedMsg(name, h) ==
    AttackedMsg(name, h) \o "\n\nThe " \o name \o " attacks" \o "\nYou dodged the attack"

\* The report of a use followed by a hit that left the player with health p
HitMsg(name, h, p) ==
    AttackedMsg(name, h) \o "\n\nThe " \o name \o " attacks" \o "\nYou got hit"
    \o "\nYour health: " \o U64ToString(p)

\* This step is a use that resolves to the visible weapon i
UsesWeapon(i) ==
    /\ UseStep
    /\ UniqueVisible(objects, command'.noun) = i
    /\ i # None
    /\ objects[i].kind = "Weapon"

\* This step ends combat in EnemyDead
EnemyDeadStep == UseStep /\ pc' = "update_screen"

----------------------------------------------------------------------------
(* C11 *)

\* C11: in combat, every 'use' that resolves to a weapon visible to the
\* player reduces the enemy's combat health by exactly the weapon's
\* attack_points and reports the new health; a use that reaches 0 ends
\* combat in EnemyDead with the victory message (so five uses of a weapon
\* with attack_points 20 from health 100 report 80, 60, 40, 20, 0).
C11_UseReducesByAttackPoints ==
    [][ \A i \in Indices(objects) :
          UsesWeapon(i) =>
            LET h == obj_health - objects[i].attack
                name == objects[obj_index].name
            IN IF h = 0
               THEN /\ pc' = "update_screen"
                    /\ output' = AttackedMsg(name, 0) \o KilledMsg(name)
               ELSE /\ pc' = "loop"
                    /\ obj_health' = h
                    /\ \/ output' = DodgedMsg(name, h)
                       \/ \E p \in (0 - 100)..100 : output' = HitMsg(name, h, p)
      ]_vars

----------------------------------------------------------------------------
(* C12 *)

\* C12: after a use of a weapon that leaves the enemy's combat health above
\* 0 the enemy retaliates once with an amount a in 0..attack-1: a = 0 is a
\* dodge and leaves the World unchanged, otherwise the player's health stored
\* in the World decreases by a (and the decreased health is reported); a use
\* that brings the enemy to 0 is followed by no retaliation.
C12_RetaliationHitsStoredHealth ==
    [][ \A i \in Indices(objects) :
          UsesWeapon(i) =>
            LET name == objects[obj_index].name
                stored == objects[LOC_PLAYER].health
            IN /\ pc' = "loop" =>
                    \E a \in 0..(objects[obj_index].attack - 1) :
                       IF a = 0
                       THEN /\ output' = DodgedMsg(name, obj_health')
                            /\ objects' = objects
                       ELSE /\ output' = HitMsg(name, obj_health', stored - a)
                            /\ objects' = [objects EXCEPT ![LOC_PLAYER].health = stored - a]
               /\ EnemyDeadStep =>
                    /\ output' = AttackedMsg(name, 0) \o KilledMsg(name)
                    /\ objects'[LOC_PLAYER].health = stored
      ]_vars

----------------------------------------------------------------------------
(* C13 *)

\* The last use was answered by a hit that brought the player's health to 0
HitToZero ==
    /\ pc = "loop"
    /\ obj_index # None
    /\ output = HitMsg(objects[obj_index].name, obj_health, 0)

\* C13: at the head of every iteration of the combat loop the player's health
\* stored in the World is tested: when it is 0, and so once a retaliation has
\* brought it to 0, combat ends at once in PlayerDead ("You died") and no
\* further line is read; otherwise a line is read.
C13_DiesOnceHealthIsZero ==
    [][ pc = "loop" =>
          /\ (objects[LOC_PLAYER].health = 0 \/ HitToZero) =>
                (pc' = "update_screen" /\ output' = DiedMsg)
          /\ (objects[LOC_PLAYER].health # 0 /\ ~HitToZero) => pc' = "read_line"
      ]_vars

----------------------------------------------------------------------------
(* C14 *)

\* C14: when combat ends in EnemyDead the health of that enemy stored in the
\* World is 0, so that an Attack on it in the resulting World is rejected as
\* already dead, and game_over holds once Bear, Troll and Bandits are all dead.
C14_EnemyDeadStoresZero ==
    [][ EnemyDeadStep =>
          LET name == objects[obj_index].name
              again == do_attack(objects', ToLowercase(name))
          IN /\ objects'[obj_index].health = 0
             /\ ~again.enter
             /\ again.output = "The " \o name \o " is already dead.\n"
             /\ (\A e \in {LOC_BEAR, LOC_TROLL, LOC_BANDITS} \ {obj_index} :
                    objects[e].health = 0) => game_over(objects')
      ]_vars

----------------------------------------------------------------------------
(* C15 *)

\* This step handles a combat line that contains none of run, inventory, use
CombatOtherStep ==
    /\ pc = "read_line"
    /\ command'.kind = "combat"
    /\ ~Contains(command'.line, "run")
    /\ ~Contains(command'.line, "inventory")
    /\ ~Contains(command'.line, "use")

\* This step handles a combat line classified as inventory
CombatInventoryStep ==
    /\ pc = "read_line"
    /\ command'.kind = "combat"
    /\ ~Contains(command'.line, "run")
    /\ Contains(command'.line, "inventory")

\* The step stays in the Ongoing state and changes no health
StaysOngoing ==
    /\ pc' = "loop"
    /\ UNCHANGED <<objects, obj_index, obj_health, player>>

\* C15: every step of the combat loop either stays in the Ongoing state or
\* leaves it through PlayerDead, EnemyDead or Fled; a line containing none of
\* run, inventory, use prints the hint again and a line containing inventory
\* lists the inventory, both staying Ongoing with all healths unchanged.
C15_OnlyTerminalStatesEndCombat ==
    [][ (pc = "loop" \/ pc = "read_line") =>
          LET name == objects[obj_index].name
          IN /\ \/ pc' \in {"loop", "read_line"}
                \/ /\ pc' = "update_screen"
                   /\ output' \in { DiedMsg, FledMsg(name),
                                    AttackedMsg(name, 0) \o KilledMsg(name) }
             /\ CombatOtherStep => (StaysOngoing /\ output' = CombatHint)
             /\ CombatInventoryStep => (StaysOngoing /\ output' = do_inventory(objects))
      ]_vars

----------------------------------------------------------------------------
(* Vocabulary of the Look and Go properties *)

\* The weapons, consumables and enemies whose location is loc
Listed(w, loc) ==
    { i \in Indices(w) : /\ w[i].kind \in {"Weapon", "Consumable", "Enemy"}
                         /\ w[i].location = loc }

\* The descriptions of the objects of S, one per line, in the order of the World
RECURSIVE DescribeAll(_, _)
DescribeAll(w, S) ==
    IF S = {} THEN ""
    ELSE LET first == CHOOSE i \in S : \A j \in S : i <= j
         IN w[first].description \o "\n" \o DescribeAll(w, S \ {first})

\* What Look shows in World w
LookText(w) ==
    LET loc == w[LOC_PLAYER].location
    IN " You are in the " \o w[loc].name \o "\n " \o w[loc].description \o ".\n"
       \o "\nYou see:\n" \o DescribeAll(w, Listed(w, loc))

\* Where a Go naming the visible object i takes the player: to i when i is
\* OverThere, along i's destination link when i is nearer (None: nowhere)
GoTarget(w, i) ==
    IF i = None THEN None
    ELSE IF get_distance(w, LOC_PLAYER, i) = "OverThere" THEN i
    ELSE w[i].destination

----------------------------------------------------------------------------
(* C16 *)

\* C16 as stated: Go sets the player's location to the named object, changing
\* nothing else and answering 'OK.' and the Look of the new location, exactly
\* when that object is at distance OverThere; in every other case the
\* player's location is unchanged, and a noun matched only beyond OverThere
\* is answered with "You don't see any '<noun>' here.".
C16_GoOnlyToOverThere ==
    [][ CommandStep("go") =>
          LET noun == command'.noun
              i == UniqueVisible(objects, noun)
              over == i # None /\ get_distance(objects, LOC_PLAYER, i) = "OverThere"
          IN /\ over =>
                   /\ objects' = [objects EXCEPT ![LOC_PLAYER].location = i]
                   /\ output' = "OK.\n" \o LookText(objects')
             /\ ~over => objects'[LOC_PLAYER].location = objects[LOC_PLAYER].location
             /\ (Near(objects, noun) = 0 /\ Far(objects, noun) >= 1) =>
                   /\ output' = NotSeenMsg(noun)
                   /\ objects' = objects
      ]_vars

\* C16 amended: Go changes the World exactly when the noun resolves, uniquely
\* within OverThere, to an object at distance OverThere (the player's location
\* becomes that object) or to a nearer object that has a destination link
\* (the player's location becomes that destination); nothing else changes and
\* the answer is 'OK.' and the Look of the new location.  A noun matching
\* exactly one object, and that beyond OverThere, is answered with
\* "You don't see any '<noun>' here." and changes nothing.
C16_GoMovesAlongLinks ==
    [][ CommandStep("go") =>
          LET noun == command'.noun
              target == GoTarget(objects, UniqueVisible(objects, noun))
          IN /\ IF target # None
                THEN /\ objects' = [objects EXCEPT ![LOC_PLAYER].location = target]
                     /\ output' = "OK.\n" \o LookText(objects')
                ELSE objects' = objects
             /\ (Near(objects, noun) = 0 /\ Far(objects, noun) = 1) =>
                   output' = NotSeenMsg(noun)
      ]_vars

\* 'go tavern' from the Dungeons, whose passage West leads to the Tavern
C16_Witness ==
    /\ pc = "update_screen"
    /\ command = Cmd("go", "tavern")
    /\ objects[LOC_PLAYER].location = LOC_TAVERN
    /\ \E p \in Indices(objects) : /\ objects[p].location = LOC_DUNGEONS
                                   /\ objects[p].destination = LOC_TAVERN
    /\ output = "OK.\n" \o LookText(objects)

----------------------------------------------------------------------------
(* C17 *)

\* C17: Look changes neither the World nor the combat state, and with an
\* empty noun its output is determined by the World it leaves behind, so that
\* a Look repeated at once returns the same output; with a non-empty noun it
\* returns the invalid-command text.
C17_LookIsReadOnly ==
    [][ CommandStep("look") =>
          /\ UNCHANGED <<objects, obj_index, obj_health, player>>
          /\ command'.noun = "" => output' = LookText(objects')
          /\ command'.noun # "" => output' = "Invalid command!!\n"
      ]_vars

\* 'look tavern' was answered as an invalid command
C17_Witness ==
    /\ pc = "update_screen"
    /\ command = Cmd("look", "tavern")
    /\ objects[LOC_PLAYER].location = LOC_TAVERN
    /\ output = "Invalid command!!\n"

----------------------------------------------------------------------------
(* C18 *)

\* C18: Look with an empty noun names and describes the player's location
\* and lists exactly the weapons, consumables and enemies whose location is
\* that location; in the built-in world, the player in the Forest, the list
\* is empty.
C18_LookListsLocation ==
    [][ (CommandStep("look") /\ command'.noun = "") =>
          /\ output' = LookText(objects)
          /\ objects = WorldNew =>
                output' = " You are in the Forest\n Look out for tree people..\n\nYou see:\n"
      ]_vars

\* Look in the Tavern with the Bow held: the Apple is listed, the Bow is not
C18_Witness ==
    /\ pc = "update_screen"
    /\ command = Cmd("look", "")
    /\ objects[LOC_PLAYER].location = LOC_TAVERN
    /\ \E i \in Indices(objects) : /\ objects[i].name = "Bow"
                                   /\ objects[i].location = LOC_PLAYER
    /\ output = " You are in the Tavern\n The tavern is empty. But the fire is still burning in the fireplace..\n\nYou see:\nAn apple\n"

----------------------------------------------------------------------------
(* C19 *)

----------------------------------------------------------------------------
(* C20 *)

\* The first word of a line, lowercased ("" for an empty line)
FirstWord(line) ==
    IF split_whitespace(line) = <<>> THEN "" ELSE ToLowercase(Head(split_whitespace(line)))

\* C20: every line whose first word is none of look, go, quit, attack, drop,
\* get, help, inventory, map parses to Unknown; an Unknown command comes from
\* such a line, is answered with "Invalid command!!\n" and the help text, and
\* leaves the World unchanged, as do Help, Map, Inventory and Quit.
C20_UnknownVerbGetsHelp ==
    [][ pc = "get_input" =>
          /\ \A line \in Lines :
                FirstWord(line) \notin Verbs => parse(line).kind = "unknown"
          /\ CommandStep("unknown") =>
                /\ \E line \in Lines : /\ FirstWord(line) \notin Verbs
                                       /\ command' = parse(line)
                /\ output' = "Invalid command!!\n" \o display_help
                /\ pc' = "update_screen"
                /\ objects' = objects
          /\ ( \/ CommandStep("help") \/ CommandStep("map")
               \/ CommandStep("inventory") \/ CommandStep("quit") )
             => objects' = objects
      ]_vars

\* 'dance' was answered with the invalid-command line and the help text
C20_Witness ==
    /\ pc = "update_screen"
    /\ command = Cmd("unknown", "dance")
    /\ output = "Invalid command!!\nAvailable commands are\n\n        look\n\n        attack <enemy name>\n\n        go <location>\n\n        get <item name>\n\n        drop <item name>\n\n        inventory \n\n        map \n\n        quit\n\n        help\n"

----------------------------------------------------------------------------
(* C21 *)

\* The Command the parser is said to give for a line: the verb is the first
\* word lowercased, the noun the other words lowercased and joined by single
\* spaces, and an unknown verb gives Unknown with the trimmed text as typed
ParsedAsClaimed(line) ==
    LET words == split_whitespace(line)
        verb == IF words = <<>> THEN "" ELSE ToLowercase(Head(words))
        noun == IF words = <<>> THEN ""
                ELSE JoinWords([i \in 1..(Len(words) - 1) |-> ToLowercase(words[i + 1])])
    IN IF verb \in {"look", "go", "attack", "drop", "get"} THEN Cmd(verb, noun)
       ELSE IF verb \in {"quit", "help", "inventory", "map"} THEN Cmd(verb, "")
       ELSE Cmd("unknown", Text(trim(line)))

\* C21: whenever a line is read at the prompt, parse gives for every line the
\* Command with the lowercased first word as verb and the lowercased other
\* words joined by single spaces as noun (no noun for quit, help, inventory
\* and map), and for an unrecognised verb Unknown carrying the full trimmed
\* original text of the line.
C21_UnknownCarriesOriginalText ==
    [][ pc = "get_input" => \A line \in Lines : parse(line) = ParsedAsClaimed(line) ]_vars

----------------------------------------------------------------------------
(* C22 *)

\* The kind of the object that holds object i ("" when i has no location,
\* "OutOfRange" when the location is no index of the World)
HolderKind(w, i) ==
    IF w[i].location = None THEN ""
    ELSE IF w[i].location \notin Indices(w) THEN "OutOfRange"
    ELSE w[w[i].location].kind

\* C22: the location of every object, when set, is the index of a Location
\* or of the Player; a weapon is at a Location or held by the Player, and the
\* enemies and the Player are at a Location; no location refers to an enemy,
\* a weapon, a consumable or an index outside the World.
C22_LocationsReferToPlaces ==
    \A i \in Indices(objects) :
        /\ HolderKind(objects, i) \in {"", "Location", "Player"}
        /\ objects[i].kind = "Weapon" => HolderKind(objects, i) \in {"Location", "Player"}
        /\ objects[i].kind \in {"Enemy", "Player"} => HolderKind(objects, i) = "Location"

\* The player walked to the Dungeons carrying the Sword
C22_Witness ==
    /\ pc = "update_screen"
    /\ command.kind = "go"
    /\ objects[LOC_PLAYER].location = LOC_DUNGEONS
    /\ objects[IDX_SWORD].location = LOC_PLAYER

----------------------------------------------------------------------------
(* C23 *)

\* What Inventory shows in World w
InventoryText(w) ==
    IF Listed(w, LOC_PLAYER) = {}
    THEN "You currently do not have anything in your inventory.\n"
    ELSE "\nYou see:\n" \o DescribeAll(w, Listed(w, LOC_PLAYER))

\* C23: Inventory leaves the World unchanged and lists exactly the weapons,
\* consumables and enemies whose location is the Player, in the order of the
\* World, and shows 'You currently do not have anything in your inventory.'
\* exactly when there are none; after a Get that picks a weapon up the
\* inventory lists that weapon, and after a Drop that puts it down it no
\* longer does.
C23_InventoryListsHeldObjects ==
    [][ /\ CommandStep("inventory") =>
              /\ objects' = objects
              /\ output' = InventoryText(objects)
              /\ (output' = "You currently do not have anything in your inventory.\n")
                    <=> (Listed(objects, LOC_PLAYER) = {})
        /\ \A i \in Indices(objects) :
              /\ ( /\ CommandStep("get")
                   /\ objects[i].kind = "Weapon"
                   /\ i = UniqueVisible(objects, command'.noun)
                   /\ output' = "You pick up the " \o objects[i].name \o ".\n" )
                 => /\ i \notin Listed(objects, LOC_PLAYER)
                    /\ i \in Listed(objects', LOC_PLAYER)
                    /\ do_inventory(objects') = InventoryText(objects')
                    /\ do_inventory(objects') # do_inventory(objects)
              /\ ( /\ CommandStep("drop")
                   /\ objects[i].kind = "Weapon"
                   /\ i = UniqueHeld(objects, command'.noun)
                   /\ output' = "You have dropped " \o objects[i].name \o ".\n" )
                 => /\ i \in Listed(objects, LOC_PLAYER)
                    /\ i \notin Listed(objects', LOC_PLAYER)
                    /\ do_inventory(objects') = InventoryText(objects')
                    /\ do_inventory(objects') # do_inventory(objects)
      ]_vars

\* Inventory listed the Sword, the only thing the player holds
C23_Witness ==
    /\ pc = "update_screen"
    /\ command = Cmd("inventory", "")
    /\ Listed(objects, LOC_PLAYER) = {IDX_SWORD}
    /\ output = "\nYou see:\n" \o objects[IDX_SWORD].description \o "\n"

\* Inventory answered that the player holds nothing
C23_WitnessEmpty ==
    /\ pc = "update_screen"
    /\ command = Cmd("inventory", "")
    /\ output = "You currently do not have anything in your inventory.\n"

----------------------------------------------------------------------------
(* C24 *)

\* C24: game_over is true exactly when the Player's stored health is 0 or the
\* stored health of the Bear, the Troll and the Bandits is 0 for all three,
\* and false otherwise; it is false in the built-in World.
C24_GameOverIffDeadOrAllDefeated ==
    /\ game_over(objects) <=>
          \/ objects[LOC_PLAYER].health = 0
          \/ /\ objects[LOC_BEAR].health = 0
             /\ objects[LOC_TROLL].health = 0
             /\ objects[LOC_BANDITS].health = 0
    /\ objects = WorldNew => ~game_over(objects)
    /\ ~game_over(WorldNew)

\* A command was answered in a World where the player lives and all three enemies are dead
C24_Witness ==
    /\ pc = "update_screen"
    /\ command.kind = "look"
    /\ objects[LOC_PLAYER].health = 100
    /\ game_over(objects)

\* A command was answered in a World where the player's health is 0 and the enemies live
C24_WitnessLost ==
    /\ pc = "update_screen"
    /\ objects[LOC_PLAYER].health = 0
    /\ objects[LOC_TROLL].health = 100
    /\ game_over(objects)

\* A command was answered in a World with a dead Troll where the game is not over
C24_WitnessOneDead ==
    /\ pc = "update_screen"
    /\ objects[LOC_TROLL].health = 0
    /\ ~game_over(objects)

----------------------------------------------------------------------------
(* C25 *)

\* Combat lines that hold the letters run
RunLines == { <<"run">>, <<"use", "runeblade">>, <<"run", "inventory">> }

\* Combat lines that hold inventory and not run
InventoryLines == { <<"inventory">>, <<"use", "inventory">> }

\* C25: a combat line is classified by the first of run, inventory, use that
\* it contains: a line containing run, such as 'use runeblade' or
\* 'run inventory', ends combat with the ran-away text alone (no attack, no
\* retaliation, World unchanged); a line containing inventory and not run,
\* such as 'use inventory', only lists the inventory and combat goes on with
\* every health unchanged.
C25_RunThenInventoryThenUse ==
    [][ (pc = "read_line" /\ command'.kind = "combat") =>
          /\ command'.line \in RunLines =>
                /\ pc' = "update_screen"
                /\ output' = FledMsg(objects[obj_index].name)
                /\ objects' = objects
          /\ command'.line \in InventoryLines =>
                /\ StaysOngoing
                /\ output' = InventoryText(objects)
      ]_vars

\* 'use runeblade' ended the fight with the Troll as a flight
C25_Witness ==
    /\ pc = "update_screen"
    /\ command.line = <<"use", "runeblade">>
    /\ output = FledMsg("Troll")

\* 'use inventory' listed the Sword the player holds and the fight goes on
C25_WitnessInventory ==
    /\ pc = "loop"
    /\ command.line = <<"use", "inventory">>
    /\ output = "\nYou see:\n" \o objects[IDX_SWORD].description \o "\n"

----------------------------------------------------------------------------
(* C26 *)

NotWeaponMsg ==
    "That is not a weapon!!" \o "\nHint: Use the following commands: use <weapon name> or run\n"

\* C26: in combat a 'use' whose noun is missing, names nothing within
\* OverThere, is ambiguous or names something that is no weapon shows the
\* message of the failed resolution ('Invalid command!!' for a missing noun,
\* the not-seen or the be-more-specific message) or 'That is not a weapon!!' and stays in
\* the Ongoing state: no retaliation, the enemy's combat health, the player's
\* health and the World unchanged. A weapon lying in the player's location is
\* accepted without being picked up: the use strikes with its attack_points.
C26_FailedUseChangesNothing ==
    [][ UseStep =>
          LET noun == command'.noun
              i == UniqueVisible(objects, noun)
          IN /\ i = None =>
                   /\ StaysOngoing
                   /\ output' \in {"Invalid command!!", NotSeenMsg(noun), SpecificMsg(noun)}
                   /\ (noun = "") => (output' = "Invalid command!!")
             /\ (i # None /\ objects[i].kind # "Weapon") =>
                   /\ StaysOngoing
                   /\ output' = NotWeaponMsg
             /\ ( /\ i # None
                  /\ objects[i].kind = "Weapon"
                  /\ objects[i].location = objects[LOC_PLAYER].location ) =>
                   /\ objects' = objects
                   /\ \/ pc' = "panicked"
                      \/ pc' = "loop" /\ obj_health' = obj_health - objects[i].attack
                      \/ pc' = "update_screen" /\ obj_health = objects[i].attack
      ]_vars

\* 'use troll' in the fight with the Troll was refused and the fight goes on
C26_Witness ==
    /\ pc = "loop"
    /\ command.line = <<"use", "troll">>
    /\ output = NotWeaponMsg
    /\ obj_health = objects[LOC_TROLL].health

\* The Sword lying in the Dungeons struck the Troll
C26_WitnessHere ==
    /\ pc = "loop"
    /\ command.line = <<"use", "sword">>
    /\ objects[IDX_SWORD].location = LOC_DUNGEONS
    /\ obj_health = 80

\* A use without a noun was refused
C26_WitnessNoNoun ==
    /\ pc = "loop"
    /\ command.line = <<"use">>
    /\ output = "Invalid command!!"
    /\ obj_health = 100

\* 'use sword' with two Swords in sight was refused as ambiguous
C26_WitnessAmbiguous ==
    /\ pc = "loop"
    /\ command.line = <<"use", "sword">>
    /\ output = SpecificMsg("sword")

----------------------------------------------------------------------------
(* C27 *)

\* C27: in the built-in World, which has no passages, no step changes the
\* World: whatever is typed, the player stays in the Forest holding nothing,
\* no combat is entered, and every location and health keeps its initial
\* value; game_over stays false and the session ends only after Quit.
C27_BuiltInWorldIsInert ==
    [][ objects = WorldNew =>
          /\ objects' = WorldNew
          /\ objects'[LOC_PLAYER].location = LOC_FOREST
          /\ Listed(objects', LOC_PLAYER) = {}
          /\ pc' \notin {"loop", "read_line", "panicked"}
          /\ ~game_over(objects')
          /\ pc' = "done" => command.kind = "quit"
      ]_vars

\* In the built-in World 'go tavern' was answered with the not-seen message
C27_Witness ==
    /\ pc = "update_screen"
    /\ objects = WorldNew
    /\ command = Cmd("go", "tavern")
    /\ output = NotSeenMsg("tavern")

\* The session in the built-in World has ended
C27_WitnessDone ==
    /\ pc = "done"
    /\ objects = WorldNew

----------------------------------------------------------------------------
(* C28 *)

\* Object i is a weapon or a consumable lying in the player's location
LiesHere(w, i) ==
    /\ i # None
    /\ w[i].kind \in {"Weapon", "Consumable"}
    /\ w[i].location = w[LOC_PLAYER].location

\* World w with one more passage, leading from the player's location to object i
WithPassageTo(w, i) ==
    [k \in 0..Cardinality(Indices(w)) |->
        IF k \in Indices(w) THEN w[k]
        ELSE Passage("Hatch", "A hatch", w[LOC_PLAYER].location, i)]

\* C28: Get changes the World only when the noun resolves, uniquely within
\* OverThere, to a weapon or a consumable lying in the player's location: the
\* weapon's location becomes the Player and nothing else changes; the
\* consumable is consumed (unless the player is at full health, when nothing
\* changes). For every other noun (the player itself, something already
\* held, an enemy, a location, a passage, a noun that is not resolved) Get
\* returns a message and leaves every location and health unchanged; so it
\* does for an item that is only OverThere, in a World that has a passage
\* leading to that item.
C28_GetTakesOnlyItemsHere ==
    [][ CommandStep("get") =>
          LET noun == command'.noun
              i == UniqueVisible(objects, noun)
          IN /\ (LiesHere(objects, i) /\ objects[i].kind = "Weapon") =>
                   objects' = [objects EXCEPT ![i].location = LOC_PLAYER]
             /\ (LiesHere(objects, i) /\ objects[i].kind = "Consumable") =>
                   \/ objects' = objects
                   \/ /\ objects'[i].location = None
                      /\ \A j \in Indices(objects) \ {i, LOC_PLAYER} : objects'[j] = objects[j]
             /\ ~LiesHere(objects, i) =>
                   /\ objects' = objects
                   /\ output' # ""
             /\ pc' = "update_screen"
             /\ \A item \in Indices(objects) :
                   LET far == WithPassageTo(objects, item)
                       label == ToLowercase(objects[item].name)
                   IN ( /\ objects[item].item
                        /\ get_distance(far, LOC_PLAYER, item) = "OverThere"
                        /\ UniqueVisible(far, label) = item )
                      => do_get(far, label) =
                            [objects |-> far,
                             output |-> "The item is not here. Try elsewhere!!\n"]
      ]_vars

\* 'get troll' next to the Troll was refused
C28_Witness ==
    /\ pc = "update_screen"
    /\ command = Cmd("get", "troll")
    /\ objects[LOC_PLAYER].location = LOC_DUNGEONS
    /\ output = "You cannot get that!!\n"

\* 'get sword' with the Sword in hand was refused
C28_WitnessHeld ==
    /\ pc = "update_screen"
    /\ command = Cmd("get", "sword")
    /\ output = "You already have: " \o objects[IDX_SWORD].description \o ".\n"

\* 'get tavern' in the Tavern was refused
C28_WitnessLocation ==
    /\ pc = "update_screen"
    /\ command = Cmd("get", "tavern")
    /\ objects[LOC_PLAYER].location = LOC_TAVERN
    /\ output = "You cannot get that!!\n"

\* 'get master of none' was refused
C28_WitnessPlayer ==
    /\ pc = "update_screen"
    /\ command = Cmd("get", "master of none")
    /\ output = "Invalid!! You cannot get that!!"

\* 'get tavern' from the Dungeons, one passage away, was refused
C28_WitnessOverThere ==
    /\ pc = "update_screen"
    /\ command = Cmd("get", "tavern")
    /\ objects[LOC_PLAYER].location = LOC_DUNGEONS
    /\ output = "You cannot get that!!\n"

----------------------------------------------------------------------------
(* C29 *)

\* World w with the player's stored health set to h
WithHealth(w, h) == [w EXCEPT ![LOC_PLAYER].health = h]

\* C29: Get on a consumable lying in the player's location while the
\* player's stored health is exactly 100 answers 'You are already at full
\* health' and leaves the World unchanged; the consumable keeps its location,
\* and the same Get in the same World with a health below 100 consumes it.
C29_FullHealthKeepsConsumable ==
    [][ CommandStep("get") =>
          LET noun == command'.noun
              i == UniqueVisible(objects, noun)
          IN ( /\ LiesHere(objects, i)
               /\ objects[i].kind = "Consumable"
               /\ objects[LOC_PLAYER].health = 100 )
             => /\ output' = "You are already at full health"
                /\ objects' = objects
                /\ objects'[i].location = objects[LOC_PLAYER].location
                /\ LET later == WithHealth(objects', 95)
                       got == do_get(later, noun)
                   IN /\ got.objects[i].location = None
                      /\ got.objects[LOC_PLAYER].health =
                            Min(100, 95 + objects[i].health)
      ]_vars

\* 'get apple' at full health in the Tavern left the Apple where it lies
C29_Witness ==
    /\ pc = "update_screen"
    /\ command = Cmd("get", "apple")
    /\ output = "You are already at full health"
    /\ objects[LOC_PLAYER].health = 100
    /\ objects[IDX_APPLE].location = LOC_TAVERN

----------------------------------------------------------------------------
(* C30 *)

\* This step answers the combat prompt with a line that holds run
RunStep ==
    /\ pc = "read_line"
    /\ command'.kind = "combat"
    /\ command'.line \in RunLines

\* C30: the damage dealt in a combat that ends in Fled is not kept: combat
\* starts from the enemy's stored health, no step of the combat loop changes
\* that stored health, and after 'run' the World is the one in which combat
\* was entered, so that a new Attack on the same enemy starts again from the
\* stored value, whatever the enemy's combat health had come down to.
C30_FledKeepsStoredHealth ==
    [][ /\ (CommandStep("attack") /\ pc' = "loop") =>
              obj_health' = objects[obj_index'].health
        /\ (pc = "loop" \/ pc = "read_line") =>
              objects'[obj_index].health = objects[obj_index].health
        /\ RunStep =>
              LET name == objects[obj_index].name
                  again == do_attack(objects', ToLowercase(name))
              IN /\ pc' = "update_screen"
                 /\ output' = FledMsg(name)
                 /\ objects' = objects
                 /\ again.enter
                 /\ again.obj_index = obj_index
                 /\ again.obj_health = objects[obj_index].health
      ]_vars

\* The player ran from the Troll, whose stored health is still 100
C30_Witness ==
    /\ pc = "update_screen"
    /\ command.line = <<"run">>
    /\ output = FledMsg("Troll")
    /\ objects[LOC_TROLL].health = 100

\* The Troll is down to 60 in a fight entered at its stored health of 100,
\* the prompt awaits a line
C30_WitnessDamaged ==
    /\ pc = "read_line"
    /\ obj_index = LOC_TROLL
    /\ obj_health = 60
    /\ objects[LOC_TROLL].health = 100

----------------------------------------------------------------------------
(* C31 *)

\* No other object of World w has the name of object i
UniquelyNamed(w, i) ==
    \A j \in Indices(w) : object_with_label(w[j], w[i].name) => j = i

PickedUpMsg(name) == "You pick up the " \o name \o ".\n"

DroppedMsg(name) == "You have dropped " \o name \o ".\n"

\* C31: a Get that resolves to a weapon lying in the player's location picks
\* it up, and a Drop of the same noun right after it puts it down again and
\* gives back exactly the World before the Get; a Drop that resolves to a
\* held weapon puts it down in the player's location, and, when no other
\* object has the weapon's name, a Get of the same noun right after it picks
\* it up again and gives back exactly the World before the Drop.
C31_GetDropRoundTrip ==
    [][ /\ CommandStep("get") =>
              LET noun == command'.noun
                  i == UniqueVisible(objects, noun)
              IN (LiesHere(objects, i) /\ objects[i].kind = "Weapon") =>
                    /\ output' = PickedUpMsg(objects[i].name)
                    /\ objects'[i].location = LOC_PLAYER
                    /\ objects' # objects
                    /\ do_drop(objects', noun) =
                          [objects |-> objects, output |-> DroppedMsg(objects[i].name)]
        /\ CommandStep("drop") =>
              LET noun == command'.noun
                  i == UniqueHeld(objects, noun)
              IN ( /\ i # None
                   /\ objects[i].kind = "Weapon"
                   /\ objects[i].location = LOC_PLAYER ) =>
                    /\ output' = DroppedMsg(objects[i].name)
                    /\ objects'[i].location = objects[LOC_PLAYER].location
                    /\ objects' # objects
                    /\ UniquelyNamed(objects, i) =>
                          do_get(objects', noun) =
                             [objects |-> objects, output |-> PickedUpMsg(objects[i].name)]
      ]_vars

\* The Sword was picked up in the Dungeons and is held
C31_Witness ==
    /\ pc = "update_screen"
    /\ command = Cmd("get", "sword")
    /\ output = PickedUpMsg("Sword")
    /\ objects[LOC_PLAYER].location = LOC_DUNGEONS
    /\ objects[IDX_SWORD].location = LOC_PLAYER
    /\ UniquelyNamed(objects, IDX_SWORD)

\* The held Sword was put down in the Dungeons, where it had been picked up
C31_WitnessDropped ==
    /\ pc = "update_screen"
    /\ command = Cmd("drop", "sword")
    /\ output = DroppedMsg("Sword")
    /\ objects[IDX_SWORD].location = LOC_DUNGEONS
    /\ UniquelyNamed(objects, IDX_SWORD)

====
